---- MODULE Spec2Model ----
(***************************************************************************)
(* Declarative route registry, command table, plugin activation and the    *)
(* lifespan sweep of fastapi_opinionated, as a state machine.              *)
(*                                                                         *)
(* Text values (paths, verbs, groups, attribute names) are sequences of    *)
(* one-character strings, so that strip / startswith / replace / upper /   *)
(* sorted are computed the way the Python code computes them.              *)
(*                                                                         *)
(* The container is one class: PluginRegistry's classmethods run with cls  *)
(* being App, so fastapi, plugin, _plugin_instances and _cmd are App's.    *)
(* An operation that raises leaves its error kind in last.outcome.         *)
(***************************************************************************)
EXTENDS Integers, Sequences, FiniteSets, TLC

VARIABLES
    controllers,       \* RouterRegistry.controllers      (list of meta dicts)
    function_routes,   \* RouterRegistry.function_routes  (list of dicts)
    declared,          \* the controller classes as written, in decoration order
    resolved,          \* value returned by the latest RouterRegistry.get_routes()
    router,            \* routes of the APIRouter returned by the latest as_fastapi_router()
    domain_modules,    \* declarations in files under app/domains not imported yet
    fastapi,           \* App.fastapi: NoApp, or the application create() stored
    app_routes,        \* routes included in the application create() built
    _cmd_handlers,     \* App._cmd_handlers: command name -> handler
    plugin,            \* App.plugin: attribute name -> plugin api
    _plugin_instances, \* App._plugin_instances: insertion-ordered dict, name -> instance
    _plugin_config,    \* PluginRegistry._plugin_config: class path -> instance and config
    enabled_plugins,   \* ENABLED_PLUGINS of .fastapi_opinionated/enabled_plugins.py
    user_lifespan,     \* create()'s user_lifespan: whether the caller passed lifespan=
    user_log,          \* the caller's lifespan context: its enter and its exit
    lifespan,          \* where combined_lifespan of the stored application stands
    startup_log,       \* hook calls of the startup sweep, in call order
    shutdown_log,      \* hook calls of the shutdown sweep, in call order
    last               \* the latest operation and its outcome

registryVars == <<controllers, function_routes, declared>>
routeVars == <<controllers, function_routes, declared, resolved, router, domain_modules>>
appVars == <<fastapi, app_routes, user_lifespan>>
configVars == <<_plugin_config, enabled_plugins>>
pluginVars == <<plugin, _plugin_instances, _plugin_config, enabled_plugins>>
sweepVars == <<lifespan, startup_log, shutdown_log, user_log>>
vars == <<controllers, function_routes, declared, resolved, router, domain_modules,
          fastapi, app_routes, _cmd_handlers, plugin, _plugin_instances,
          _plugin_config, enabled_plugins, user_lifespan, user_log,
          lifespan, startup_log, shutdown_log, last>>

----------------------------------------------------------------------------
(* Bounds of the model *)

MaxControllers == 2
MaxFunctionRoutes == 2
MaxRegisterCmd == 2
MaxCreate == 1
MaxEnable == 2
MaxBind == 2

----------------------------------------------------------------------------
(* Python values *)

\* Python's None where a text value is expected
None == <<"<None>">>

\* truthiness of an optional text value: None and "" are falsy
Truthy(s) == s # None /\ s # <<>>

IsSpace(c) == c = " "

\* ord() of the characters the model's texts are written with
CharCode(c) ==
    CASE c = " " -> 32 [] c = "/" -> 47
      [] c = "A" -> 65 [] c = "C" -> 67 [] c = "D" -> 68 [] c = "E" -> 69
      [] c = "G" -> 71 [] c = "H" -> 72 [] c = "I" -> 73 [] c = "L" -> 76 [] c = "M" -> 77
      [] c = "N" -> 78 [] c = "O" -> 79 [] c = "P" -> 80 [] c = "R" -> 82 [] c = "S" -> 83
      [] c = "T" -> 84 [] c = "U" -> 85
      [] c = "_" -> 95
      [] c = "a" -> 97 [] c = "c" -> 99 [] c = "d" -> 100 [] c = "e" -> 101
      [] c = "g" -> 103 [] c = "h" -> 104 [] c = "i" -> 105 [] c = "l" -> 108 [] c = "m" -> 109
      [] c = "n" -> 110 [] c = "o" -> 111 [] c = "p" -> 112 [] c = "r" -> 114 [] c = "s" -> 115
      [] c = "t" -> 116 [] c = "u" -> 117

\* str.upper() on one character
UpperChar(c) ==
    CASE c = "a" -> "A" [] c = "c" -> "C" [] c = "d" -> "D" [] c = "e" -> "E"
      [] c = "g" -> "G" [] c = "h" -> "H" [] c = "i" -> "I" [] c = "l" -> "L" [] c = "m" -> "M"
      [] c = "n" -> "N" [] c = "o" -> "O" [] c = "p" -> "P" [] c = "r" -> "R" [] c = "s" -> "S"
      [] c = "t" -> "T" [] c = "u" -> "U"
      [] OTHER -> c

\* str.upper()
Upper(s) == [i \in 1..Len(s) |-> UpperChar(s[i])]

\* str.replace("/", "")
RECURSIVE RemoveSlashes(_)
RemoveSlashes(s) ==
    IF s = <<>> THEN <<>>
    ELSE IF Head(s) = "/" THEN RemoveSlashes(Tail(s))
    ELSE <<Head(s)>> \o RemoveSlashes(Tail(s))

RECURSIVE LStrip(_)
LStrip(s) == IF s # <<>> /\ IsSpace(Head(s)) THEN LStrip(Tail(s)) ELSE s

RECURSIVE RStrip(_)
RStrip(s) ==
    IF s # <<>> /\ IsSpace(s[Len(s)]) THEN RStrip(SubSeq(s, 1, Len(s) - 1)) ELSE s

\* str.strip()
Strip(s) == RStrip(LStrip(s))

\* str.startswith("/")
StartsWithSlash(s) == s # <<>> /\ Head(s) = "/"

\* a < b for str: lexicographic by code point
RECURSIVE StrLess(_, _)
StrLess(a, b) ==
    IF b = <<>> THEN FALSE
    ELSE IF a = <<>> THEN TRUE
    ELSE IF Head(a) = Head(b) THEN StrLess(Tail(a), Tail(b))
    ELSE CharCode(Head(a)) < CharCode(Head(b))

\* sorted(names) for a set of distinct names
RECURSIVE SortedNames(_)
SortedNames(S) ==
    IF S = {} THEN <<>>
    ELSE LET m == CHOOSE x \in S : \A y \in S \ {x} : StrLess(x, y)
         IN  <<m>> \o SortedNames(S \ {m})

\* [f(x) for x in s]
SeqMap(f(_), s) == [i \in 1..Len(s) |-> f(s[i])]

\* concatenation of a sequence of sequences
RECURSIVE Flatten(_)
Flatten(ss) == IF ss = <<>> THEN <<>> ELSE Head(ss) \o Flatten(Tail(ss))

----------------------------------------------------------------------------
(* decorators/routing.py *)

\* faulty variant: the value is not stripped
_normalize_path_NoStrip(path) ==
    IF path = None \/ Strip(path) = <<>> THEN <<"/">>
    ELSE IF ~StartsWithSlash(path) THEN <<"/">> \o path ELSE path

\* _normalize_path(path), lines 7-24
_normalize_path(path) ==
    IF path = None \/ Strip(path) = <<>> THEN <<"/">>
    ELSE LET p == Strip(path)
         IN  IF ~StartsWithSlash(p) THEN <<"/">> \o p ELSE p

\* the attributes Http's decorator attaches to the decorated function
HttpMeta(d) ==
    [func_name    |-> d.func_name,
     _http_method |-> Upper(d.method),
     _http_path   |-> _normalize_path(d.path),
     _http_group  |-> d.group]

\* the names dir(cls) yields for a class whose body defines `body`: sorted
DirNames(body) == SortedNames({body[i].func_name : i \in 1..Len(body)})

\* getattr(cls, attr_name): the definition the class body binds to that name
ClassAttr(body, name) ==
    LET i == CHOOSE j \in 1..Len(body) :
                 /\ body[j].func_name = name
                 /\ \A k \in (j + 1)..Len(body) : body[k].func_name # name
    IN  HttpMeta(body[i])

\* faulty variant: a method without a group derives it from its own path
ControllerRoutes_OwnPath(c) ==
    LET names == DirNames(c.body)
        entry(n) ==
            LET attr == ClassAttr(c.body, n)
            IN  [func_name   |-> n,
                 path        |-> attr._http_path,
                 http_method |-> attr._http_method,
                 group       |-> IF Truthy(attr._http_group) THEN attr._http_group
                                 ELSE Upper(RemoveSlashes(attr._http_path))]
    IN  SeqMap(entry, names)

\* the routes list Controller's wrapper collects (loop over dir(cls))
ControllerRoutes(c) ==
    LET names == DirNames(c.body)
        entry(n) ==
            LET attr == ClassAttr(c.body, n)
            IN  [func_name   |-> n,
                 path        |-> attr._http_path,
                 http_method |-> attr._http_method,
                 group       |-> IF Truthy(attr._http_group) THEN attr._http_group
                                 ELSE IF Truthy(c.group) THEN c.group
                                 ELSE Upper(RemoveSlashes(c.base))]
    IN  SeqMap(entry, names)

\* faulty variant: the order of the methods depends on the instance's identity
ControllerMeta_ByIdentity(c, inst) ==
    [instance        |-> inst,
     base            |-> c.base,
     methods         |-> IF inst % 2 = 0
                         THEN [i \in 1..Len(ControllerRoutes(c)) |->
                                  ControllerRoutes(c)[Len(ControllerRoutes(c)) + 1 - i]]
                         ELSE ControllerRoutes(c),
     controller_name |-> c.name]

\* the meta dict Controller's wrapper registers; cls() is a fresh instance
ControllerMeta(c, inst) ==
    [instance        |-> inst,
     base            |-> c.base,
     methods         |-> ControllerRoutes(c),
     controller_name |-> c.name]

\* the dict Http's decorator registers for a free function
FunctionRouteEntry(d) ==
    LET normalized == _normalize_path(d.path)
    IN  [handler     |-> [instance |-> 0, func |-> d.func_name],
         http_method |-> Upper(d.method),
         path        |-> normalized,
         group       |-> IF Truthy(d.group) THEN d.group
                         ELSE Upper(RemoveSlashes(normalized)),
         controller  |-> None]

----------------------------------------------------------------------------
(* routing/registry.py *)

\* faulty variant: the controller's base path is left out
get_routes_of_NoBase(ctrl) ==
    LET entry(m) ==
            [path        |-> m.path,
             http_method |-> m.http_method,
             handler     |-> [instance |-> ctrl.instance, func |-> m.func_name],
             controller  |-> ctrl.controller_name,
             group       |-> m.group]
    IN  SeqMap(entry, ctrl.methods)

\* the routes get_routes() yields for one registered controller, lines 109-125
get_routes_of(ctrl) ==
    LET entry(m) ==
            [path        |-> ctrl.base \o m.path,
             http_method |-> m.http_method,
             handler     |-> [instance |-> ctrl.instance, func |-> m.func_name],
             controller  |-> ctrl.controller_name,
             group       |-> m.group]
    IN  SeqMap(entry, ctrl.methods)

get_routes(ctrls) == Flatten(SeqMap(get_routes_of, ctrls))

\* router.add_api_route(path, handler, methods=[http_method], tags=[group])
ApiRoute(r) ==
    [path |-> r.path, handler |-> r.handler, methods |-> <<r.http_method>>,
     tags |-> <<r.group>>]

\* faulty variant: a route whose (methods, path) is already attached is skipped
RECURSIVE DropConflicts(_, _)
DropConflicts(rs, seen) ==
    IF rs = <<>> THEN <<>>
    ELSE LET key == <<Head(rs).methods, Head(rs).path>>
         IN  IF key \in seen THEN DropConflicts(Tail(rs), seen)
             ELSE <<Head(rs)>> \o DropConflicts(Tail(rs), seen \cup {key})

as_fastapi_router_NoConflicts(ctrls, frs) ==
    DropConflicts(SeqMap(ApiRoute, get_routes(ctrls)) \o SeqMap(ApiRoute, frs), {})

\* faulty variant: the loop over function_routes is left out
as_fastapi_router_NoFunctionRoutes(ctrls, frs) ==
    SeqMap(ApiRoute, get_routes(ctrls))

as_fastapi_router(ctrls, frs) ==
    SeqMap(ApiRoute, get_routes(ctrls)) \o SeqMap(ApiRoute, frs)

----------------------------------------------------------------------------
(* The declarations the discovery phase is fed with *)

GET == <<"G", "E", "T">>
POST == <<"P", "O", "S", "T">>

\* src/test_routes.py
UserController ==
    [name  |-> "UserController",
     base  |-> <<"/", "u", "s", "e", "r", "s">>,
     group |-> None,
     body  |-> << [func_name |-> <<"l", "i", "s", "t">>, method |-> GET,
                   path |-> <<"/">>, group |-> None],
                  [func_name |-> <<"c", "r", "e", "a", "t", "e">>, method |-> POST,
                   path |-> <<"/", "c", "r", "e", "a", "t", "e">>, group |-> None] >>]

\* methods already in attribute-name order, a lower-case verb, a relative
\* path, an explicit method group
ItemController ==
    [name  |-> "ItemController",
     base  |-> <<"/", "i", "t", "e", "m", "s">>,
     group |-> <<"S", "h", "o", "p">>,
     body  |-> << [func_name |-> <<"a", "d", "d">>, method |-> <<"p", "u", "t">>,
                   path |-> <<"a", "d", "d">>, group |-> None],
                  [func_name |-> <<"d", "e", "l">>, method |-> GET,
                   path |-> None, group |-> <<"A", "d", "m">>] >>]

\* a controller without routes
EmptyController ==
    [name |-> "EmptyController", base |-> <<>>, group |-> None, body |-> <<>>]

ControllerClasses == {UserController, ItemController, EmptyController}

FunctionDecls ==
    { [func_name |-> <<"p", "i", "n", "g">>, method |-> GET,
       path |-> <<"p", "i", "n", "g">>, group |-> None, nested |-> FALSE],
      [func_name |-> <<"r", "o", "o", "t">>, method |-> <<"g", "e", "t">>,
       path |-> <<" ">>, group |-> <<"M", "i", "s", "c">>, nested |-> FALSE],
      [func_name |-> <<"l", "o", "c", "a", "l">>, method |-> POST,
       path |-> <<"/", "l", "o", "c", "a", "l">>, group |-> None, nested |-> TRUE] }

----------------------------------------------------------------------------
(* app.py: the container's values *)

\* App.fastapi before create() has stored an application
NoApp == 0

\* Python's None where an object (a plugin api, a handler result) is expected
NoApi == "None"

\* keyword arguments / plugin configuration: a dict as a set of (key, value)
NoKwargs == {}
Kwargs == {NoKwargs, {<<"port", "8000">>}}

\* the hooks BasePlugin defines in shared/base_plugin.py
BaseLifecycleHooks == {"on_ready", "on_ready_async", "on_shutdown", "on_shutdown_async"}

\* the activation hooks registry/plugin.py compares against BasePlugin's;
\* shared/base_plugin.py does not show these defaults: they are no-ops
BaseActivationHooks == {"on_pre_enable", "on_enable", "on_post_enable"}

\* command handlers: what the handler does when called
Handlers ==
    { [id |-> "socket_internal", returns |-> "SocketApi", raises |-> FALSE],
      [id |-> "other_internal",  returns |-> "OtherApi",  raises |-> FALSE],
      [id |-> "void_internal",   returns |-> NoApi,       raises |-> FALSE],
      [id |-> "broken_internal", returns |-> NoApi,       raises |-> TRUE] }

CommandNames == {"socket.enable", "plain.enable", "admin.enable"}

\* A plugin object.  own: the methods its class body defines; inherited: the
\* methods an intermediate base class (between it and BasePlugin) defines;
\* internal: what its _internal returns, or "raise"; raises: its hooks that
\* raise; hangs: its hooks that never return.  BasePlugin._internal is abstract: every instance overrides it.
SocketPlugin ==
    [cls |-> "SocketPlugin", is_plugin |-> TRUE,
     public_name |-> "socket", command_name |-> "socket.enable",
     returns_plugin_api |-> TRUE, required_config |-> FALSE,
     own |-> {"_internal", "on_pre_enable", "on_enable", "on_post_enable", "on_ready", "on_shutdown"},
     inherited |-> {}, internal |-> "SocketApi", raises |-> {},
     hangs |-> {}]

\* no hook overridden at all
PlainPlugin ==
    [cls |-> "PlainPlugin", is_plugin |-> TRUE,
     public_name |-> "plain", command_name |-> "plain.enable",
     returns_plugin_api |-> TRUE, required_config |-> FALSE,
     own |-> {"_internal"}, inherited |-> {}, internal |-> "PlainApi", raises |-> {},
     hangs |-> {}]

\* a UI plugin: no api, its _internal raises
AdminPlugin ==
    [cls |-> "AdminPlugin", is_plugin |-> TRUE,
     public_name |-> "admin", command_name |-> "admin.enable",
     returns_plugin_api |-> FALSE, required_config |-> FALSE,
     own |-> {"_internal", "on_enable", "on_post_enable", "on_ready_async", "on_shutdown_async"},
     inherited |-> {}, internal |-> "raise", raises |-> {},
     hangs |-> {}]

\* no api, its _internal returns an object; its hooks come from a base class
\* of its own (class DocsPlugin(HookedPlugin), class HookedPlugin(BasePlugin))
DocsPlugin ==
    [cls |-> "DocsPlugin", is_plugin |-> TRUE,
     public_name |-> "docs", command_name |-> "docs.enable",
     returns_plugin_api |-> FALSE, required_config |-> FALSE,
     own |-> {"_internal"},
     inherited |-> {"on_enable", "on_ready", "on_shutdown", "on_shutdown_async"},
     internal |-> "DocsApi", raises |-> {},
     hangs |-> {}]

\* its enable hook raises, and so does its ready hook
FailingPlugin ==
    [cls |-> "FailingPlugin", is_plugin |-> TRUE,
     public_name |-> "failing", command_name |-> "socket.enable",
     returns_plugin_api |-> TRUE, required_config |-> FALSE,
     own |-> {"_internal", "on_enable", "on_post_enable", "on_ready"}, inherited |-> {},
     internal |-> "SocketApi", raises |-> {"on_enable", "on_ready"},
     hangs |-> {}]

\* its post-enable hook raises, and so does its shutdown hook
LatePlugin ==
    [cls |-> "LatePlugin", is_plugin |-> TRUE,
     public_name |-> "late", command_name |-> "late.enable",
     returns_plugin_api |-> FALSE, required_config |-> FALSE,
     own |-> {"_internal", "on_post_enable", "on_shutdown"}, inherited |-> {},
     internal |-> "LateApi", raises |-> {"on_post_enable", "on_shutdown"},
     hangs |-> {}]

\* its async ready hook never resolves, its shutdown hook never returns
StuckPlugin ==
    [cls |-> "StuckPlugin", is_plugin |-> TRUE,
     public_name |-> "stuck", command_name |-> "stuck.enable",
     returns_plugin_api |-> FALSE, required_config |-> FALSE,
     own |-> {"_internal", "on_ready_async", "on_shutdown"}, inherited |-> {},
     internal |-> "StuckApi", raises |-> {},
     hangs |-> {"on_ready_async", "on_shutdown"}]

\* another plugin class with the public name of SocketPlugin
ShadowPlugin ==
    [cls |-> "ShadowPlugin", is_plugin |-> TRUE,
     public_name |-> "socket", command_name |-> "plain.enable",
     returns_plugin_api |-> TRUE, required_config |-> FALSE,
     own |-> {"_internal", "on_shutdown_async"}, inherited |-> {},
     internal |-> "ShadowApi", raises |-> {},
     hangs |-> {}]

PluginObjects ==
    {SocketPlugin, PlainPlugin, AdminPlugin, DocsPlugin, FailingPlugin, LatePlugin}

\* an object with a plugin's attributes whose class does not derive from BasePlugin
LookalikeObject ==
    [cls |-> "LookalikeObject", is_plugin |-> FALSE,
     public_name |-> "socket", command_name |-> "socket.enable",
     returns_plugin_api |-> TRUE, required_config |-> FALSE,
     own |-> {"_internal", "on_enable"}, inherited |-> {},
     internal |-> "SocketApi", raises |-> {},
     hangs |-> {}]

\* a plugin that declares required_config = True
SecurePlugin ==
    [cls |-> "SecurePlugin", is_plugin |-> TRUE,
     public_name |-> "secure", command_name |-> "secure.enable",
     returns_plugin_api |-> FALSE, required_config |-> TRUE,
     own |-> {"_internal", "on_enable"}, inherited |-> {},
     internal |-> "SecureApi", raises |-> {},
     hangs |-> {}]

\* the plugin classes ENABLED_PLUGINS may name, by class path
LoadClasses == {SecurePlugin, DocsPlugin, SocketPlugin}

\* PluginClass = import_string(plugin_path); PluginClass()
ClassAt(path) == CHOOSE p \in LoadClasses : p.cls = path

\* what a caller may hand to App.enable and App.configurePlugin
Objects == PluginObjects \cup {LookalikeObject}

\* faulty variant: only the class's own body counts, as "<hook>" in __dict__
Overrides_OwnOnly(p, hook) == hook \in p.own

\* plugin.__class__.<hook> is not BasePlugin.<hook>
Overrides(p, hook) == hook \in p.own \cup p.inherited

\* "<hook>" in plugin.__class__.__dict__
InClassDict(p, hook) == hook \in p.own

\* hasattr(plugin, "<hook>")
HasAttr(p, hook) == hook \in BaseLifecycleHooks \cup p.own \cup p.inherited

----------------------------------------------------------------------------
(* dicts *)

\* d[k] = v on a dict kept as a function
SetItem(d, k, v) == [x \in DOMAIN d \cup {k} |-> IF x = k THEN v ELSE d[x]]

\* getattr(obj, name, None) on an attribute bag
GetAttrOrNone(ns, name) == IF name \in DOMAIN ns THEN ns[name] ELSE NoApi

\* key in d, on an insertion-ordered dict kept as a sequence of items
HasKey(d, k) == \E i \in 1..Len(d) : d[i].name = k

\* faulty variant: a present key is taken out and put at the end
OrderedSetItem_MoveToEnd(d, k, v) ==
    Append(SelectSeq(d, LAMBDA e : e.name # k), [name |-> k, instance |-> v])

\* d[k] = v on an insertion-ordered dict: a present key keeps its position
OrderedSetItem(d, k, v) ==
    IF HasKey(d, k)
    THEN [i \in 1..Len(d) |-> IF d[i].name = k THEN [name |-> k, instance |-> v] ELSE d[i]]
    ELSE Append(d, [name |-> k, instance |-> v])

\* list(d.keys())
Keys(d) == [i \in 1..Len(d) |-> d[i].name]

----------------------------------------------------------------------------
(* app.py: App._cmd and App.enable *)

Raised(kind, calls) == [outcome |-> kind, value |-> NoApi, calls |-> calls]

Returned(value, calls) == [outcome |-> "ok", value |-> value, calls |-> calls]

\* the call cls._cmd_handlers[name](cls, cls.fastapi, **kwargs)
HandlerCall(h, app, kwargs) ==
    [ev |-> "handler", fn |-> h.id, core |-> "App", app |-> app, kwargs |-> kwargs]

\* faulty variant: the initialization check comes before the lookup
_cmd_HandleFirst(handlers, app, name, kwargs) ==
    IF app = NoApp THEN Raised("ServingHandleNotReady", <<>>)
    ELSE IF name \notin DOMAIN handlers THEN Raised("CommandNotFound", <<>>)
    ELSE LET h == handlers[name]
             call == HandlerCall(h, app, kwargs)
         IN  IF h.raises THEN Raised("HandlerError", <<call>>)
             ELSE IF h.returns = NoApi THEN Raised("CommandReturnedNothing", <<call>>)
             ELSE Returned(h.returns, <<call>>)

\* faulty variant: a None result is handed back
_cmd_NoneAllowed(handlers, app, name, kwargs) ==
    IF name \notin DOMAIN handlers THEN Raised("CommandNotFound", <<>>)
    ELSE IF app = NoApp THEN Raised("ServingHandleNotReady", <<>>)
    ELSE LET h == handlers[name]
             call == HandlerCall(h, app, kwargs)
         IN  IF h.raises THEN Raised("HandlerError", <<call>>)
             ELSE Returned(h.returns, <<call>>)

_cmd(handlers, app, name, kwargs) ==
    IF name \notin DOMAIN handlers THEN Raised("CommandNotFound", <<>>)
    ELSE IF app = NoApp THEN Raised("ServingHandleNotReady", <<>>)
    ELSE LET h == handlers[name]
             call == HandlerCall(h, app, kwargs)
         IN  IF h.raises THEN Raised("HandlerError", <<call>>)
             ELSE IF h.returns = NoApi THEN Raised("CommandReturnedNothing", <<call>>)
             ELSE Returned(h.returns, <<call>>)

\* what an activation leaves behind: its outcome, the steps it took, and the
\* namespace and instance dict it leaves
Activation(res, ns, insts) ==
    [outcome |-> res.outcome, value |-> res.value, calls |-> res.calls,
     plugin |-> ns, instances |-> insts]

RegisterStep(name, p, api) ==
    [ev |-> "register", name |-> name, cls |-> p.cls, api |-> api]

\* faulty variant: any object with the attributes is accepted
enable_NoTypeCheck(handlers, app, ns, insts, p, kwargs) ==
    IF app = NoApp THEN Activation(Raised("ServingHandleNotReady", <<>>), ns, insts)
    ELSE LET r == _cmd(handlers, app, p.command_name, kwargs)
         IN  IF r.outcome # "ok" THEN Activation(r, ns, insts)
             ELSE Activation(
                      Returned(r.value,
                               r.calls \o <<RegisterStep(p.public_name, p, r.value)>>),
                      SetItem(ns, p.public_name, r.value),
                      OrderedSetItem(insts, p.public_name, p))

\* App.enable(plugin, **plugin_kwargs)
enable(handlers, app, ns, insts, p, kwargs) ==
    IF ~p.is_plugin THEN Activation(Raised("NotAPlugin", <<>>), ns, insts)
    ELSE IF app = NoApp THEN Activation(Raised("ServingHandleNotReady", <<>>), ns, insts)
    ELSE LET r == _cmd(handlers, app, p.command_name, kwargs)
         IN  IF r.outcome # "ok" THEN Activation(r, ns, insts)
             ELSE Activation(
                      Returned(r.value,
                               r.calls \o <<RegisterStep(p.public_name, p, r.value)>>),
                      SetItem(ns, p.public_name, r.value),
                      OrderedSetItem(insts, p.public_name, p))

----------------------------------------------------------------------------
(* registry/plugin.py: PluginRegistry._enable_plugin_instance *)

\* plugin.<hook>(cls, app, plugin_api)
HookCall(p, hook, app, api) ==
    [ev |-> hook, cls |-> p.cls, core |-> "App", app |-> app, api |-> api]

\* plugin.on_pre_enable(cls, app)
PreEnableCall(p, app) ==
    [ev |-> "on_pre_enable", cls |-> p.cls, core |-> "App", app |-> app]

\* plugin._internal(cls, app, **plugin_kwargs), and what it did
InternalCall(p, app, kwargs) ==
    [ev |-> "_internal", cls |-> p.cls, core |-> "App", app |-> app, kwargs |-> kwargs,
     did |-> p.internal]

\* pname = plugin.public_name or plugin.__class__.__name__
PName(p) == IF p.public_name # "" THEN p.public_name ELSE p.cls

\* faulty variant: an exception of a non-api plugin's _internal is not swallowed
InternalStep_Propagates(handlers, app, p, kwargs) ==
    IF p.returns_plugin_api
    THEN _cmd(handlers, app, p.command_name, kwargs)
    ELSE IF Overrides(p, "_internal") /\ p.internal = "raise"
    THEN Raised("InternalError", <<InternalCall(p, app, kwargs)>>)
    ELSE Returned(NoApi, IF Overrides(p, "_internal")
                         THEN <<InternalCall(p, app, kwargs)>>
                         ELSE <<>>)

\* lines 74-94: the api the internal step yields, or the error it raises
InternalStep(handlers, app, p, kwargs) ==
    IF p.returns_plugin_api
    THEN _cmd(handlers, app, p.command_name, kwargs)
    ELSE Returned(NoApi, IF Overrides(p, "_internal")
                         THEN <<InternalCall(p, app, kwargs)>>
                         ELSE <<>>)

\* faulty variant: the plugin is registered before its enable hook runs, and the
\* hooks are handed None
EnableSteps_RegisterFirst(app, ns, insts, p, api, before) ==
    LET pname == PName(p)
        on_enable == IF Overrides(p, "on_enable")
                     THEN <<HookCall(p, "on_enable", app, NoApi)>> ELSE <<>>
        reg == RegisterStep(pname, p, api)
        on_post == IF Overrides(p, "on_post_enable")
                   THEN <<HookCall(p, "on_post_enable", app, NoApi)>> ELSE <<>>
    IN  Activation(Returned(api, before \o <<reg>> \o on_enable \o on_post),
                   SetItem(ns, pname, api), OrderedSetItem(insts, pname, p))

\* faulty variant: the namespace slot is written, the instance dict is not
EnableSteps_NoInstance(app, ns, insts, p, api, before) ==
    Activation(Returned(api, before \o <<RegisterStep(PName(p), p, api)>>),
               SetItem(ns, PName(p), api), insts)

\* lines 96-115, after the internal step yielded api
EnableSteps(app, ns, insts, p, api, before) ==
    LET pname == PName(p)
        on_enable == IF Overrides(p, "on_enable")
                     THEN <<HookCall(p, "on_enable", app, api)>> ELSE <<>>
        reg == RegisterStep(pname, p, api)
        on_post == IF Overrides(p, "on_post_enable")
                   THEN <<HookCall(p, "on_post_enable", app, api)>> ELSE <<>>
        ns2 == SetItem(ns, pname, api)
        insts2 == OrderedSetItem(insts, pname, p)
    IN  IF on_enable # <<>> /\ "on_enable" \in p.raises
        THEN Activation(Raised("HookError", before \o on_enable), ns, insts)
        ELSE IF on_post # <<>> /\ "on_post_enable" \in p.raises
        THEN Activation(Raised("HookError", before \o on_enable \o <<reg>> \o on_post),
                        ns2, insts2)
        ELSE Activation(Returned(api, before \o on_enable \o <<reg>> \o on_post),
                        ns2, insts2)

\* faulty variant: the serving handle is not checked
_enable_plugin_instance_NoHandleCheck(handlers, app, ns, insts, p, kwargs) ==
    LET on_pre == IF Overrides(p, "on_pre_enable")
                  THEN <<PreEnableCall(p, app)>> ELSE <<>>
        r == InternalStep(handlers, app, p, kwargs)
    IN  IF r.outcome # "ok"
        THEN Activation(Raised(r.outcome, on_pre \o r.calls), ns, insts)
        ELSE EnableSteps(app, ns, insts, p, r.value, on_pre \o r.calls)

_enable_plugin_instance(handlers, app, ns, insts, p, kwargs) ==
    IF app = NoApp THEN Activation(Raised("ServingHandleNotReady", <<>>), ns, insts)
    ELSE LET on_pre == IF Overrides(p, "on_pre_enable")
                       THEN <<PreEnableCall(p, app)>> ELSE <<>>
         IN  IF on_pre # <<>> /\ "on_pre_enable" \in p.raises
             THEN Activation(Raised("HookError", on_pre), ns, insts)
             ELSE LET r == InternalStep(handlers, app, p, kwargs)
                  IN  IF r.outcome # "ok"
                      THEN Activation(Raised(r.outcome, on_pre \o r.calls), ns, insts)
                      ELSE EnableSteps(app, ns, insts, p, r.value, on_pre \o r.calls)

----------------------------------------------------------------------------
(* registry/plugin.py: PluginRegistry.configurePlugin, _load_enabled_plugins *)

\* configurePlugin(plugin, **config): the entry stored under the class path
ConfigEntry(p, config) == [instance |-> p, config |-> config]

\* entry = cls._plugin_config.get(plugin_path); entry["config"] if entry else {}
ConfigOf(cfgs, path) == IF path \in DOMAIN cfgs THEN cfgs[path].config ELSE NoKwargs

\* plugin_instance = entry["instance"] if entry, else the fresh PluginClass()
InstanceOf(cfgs, path) ==
    IF path \in DOMAIN cfgs THEN cfgs[path].instance ELSE ClassAt(path)

\* faulty variant: required_config is not looked at
LoadStep_NoRequiredCheck(handlers, app, ns, insts, cfgs, path, metadata_only) ==
    IF metadata_only
    THEN Activation(Returned(NoApi, <<>>), ns,
                    OrderedSetItem(insts, InstanceOf(cfgs, path).public_name,
                                   InstanceOf(cfgs, path)))
    ELSE _enable_plugin_instance(handlers, app, ns, insts, InstanceOf(cfgs, path),
                                 ConfigOf(cfgs, path))

\* one turn of the loop of _load_enabled_plugins, lines 133-158
LoadStep(handlers, app, ns, insts, cfgs, path, metadata_only) ==
    IF ~metadata_only /\ ClassAt(path).required_config
       /\ ConfigOf(cfgs, path) = NoKwargs
    THEN Activation(Raised("MissingRequiredConfig", <<>>), ns, insts)
    ELSE IF metadata_only
    THEN Activation(Returned(NoApi, <<>>), ns,
                    OrderedSetItem(insts, InstanceOf(cfgs, path).public_name,
                                   InstanceOf(cfgs, path)))
    ELSE _enable_plugin_instance(handlers, app, ns, insts, InstanceOf(cfgs, path),
                                 ConfigOf(cfgs, path))

\* the loop: the first turn that raises ends it; done counts the turns completed
RECURSIVE LoadLoop(_, _, _, _, _, _, _, _, _)
LoadLoop(handlers, app, ns, insts, cfgs, enabled, metadata_only, calls, done) ==
    IF enabled = <<>>
    THEN [outcome |-> "ok", value |-> NoApi, calls |-> calls, plugin |-> ns,
          instances |-> insts, done |-> done]
    ELSE LET a == LoadStep(handlers, app, ns, insts, cfgs, Head(enabled), metadata_only)
         IN  IF a.outcome # "ok"
             THEN [outcome |-> a.outcome, value |-> NoApi, calls |-> calls \o a.calls,
                   plugin |-> a.plugin, instances |-> a.instances, done |-> done]
             ELSE LoadLoop(handlers, app, a.plugin, a.instances, cfgs, Tail(enabled),
                           metadata_only, calls \o a.calls, done + 1)

\* a loop that goes on with the next path after a turn raised, reporting the
\* first failure at its end
RECURSIVE LoadLoop_KeepGoing(_, _, _, _, _, _, _, _, _, _)
LoadLoop_KeepGoing(handlers, app, ns, insts, cfgs, enabled, metadata_only, calls, done,
                   outcome) ==
    IF enabled = <<>>
    THEN [outcome |-> outcome, value |-> NoApi, calls |-> calls, plugin |-> ns,
          instances |-> insts, done |-> done]
    ELSE LET a == LoadStep(handlers, app, ns, insts, cfgs, Head(enabled), metadata_only)
         IN  LoadLoop_KeepGoing(handlers, app, a.plugin, a.instances, cfgs, Tail(enabled),
                                metadata_only, calls \o a.calls,
                                IF outcome = "ok" /\ a.outcome = "ok"
                                THEN done + 1 ELSE done,
                                IF outcome = "ok" THEN a.outcome ELSE outcome)

\* faulty variant: a failing plugin is skipped, the ones after it are activated
_load_enabled_plugins_SkipFailed(handlers, app, ns, insts, cfgs, enabled, metadata_only) ==
    LoadLoop_KeepGoing(handlers, app, ns, insts, cfgs, enabled, metadata_only, <<>>, 0,
                       "ok")

\* PluginRegistry._load_enabled_plugins(metadata_only)
_load_enabled_plugins(handlers, app, ns, insts, cfgs, enabled, metadata_only) ==
    LoadLoop(handlers, app, ns, insts, cfgs, enabled, metadata_only, <<>>, 0)

----------------------------------------------------------------------------
(* Operations of the discovery phase and of route resolution *)

NoOp == [op |-> "init"]

\* faulty variant: the new controller is put in front of the list
WithController_Prepend(reg, c) ==
    [reg EXCEPT !.controllers =
                    <<ControllerMeta(c, Len(reg.controllers) + 1)>> \o @,
                !.declared = <<c>> \o @]

\* the registry after @Controller(base, group) is applied to a class: the
\* class body's @Http decorations, then the wrapper
WithController(reg, c) ==
    [reg EXCEPT !.controllers =
                    Append(@, ControllerMeta(c, Len(reg.controllers) + 1)),
                !.declared = Append(@, c)]

\* the registry after @Http(method, path, group) is applied to a function
\* that is not a class attribute
WithFunctionRoute(reg, d) ==
    IF ~d.nested
    THEN [reg EXCEPT !.function_routes = Append(@, FunctionRouteEntry(d))]
    ELSE reg

Registry ==
    [controllers |-> controllers, function_routes |-> function_routes,
     declared |-> declared]

SetRegistry(reg) ==
    /\ controllers' = reg.controllers
    /\ function_routes' = reg.function_routes
    /\ declared' = reg.declared

DeclareController(c) ==
    /\ Len(controllers) < MaxControllers
    /\ SetRegistry(WithController(Registry, c))
    /\ last' = [op |-> "Controller", name |-> c.name]
    /\ UNCHANGED <<resolved, router, domain_modules, appVars, _cmd_handlers,
                   pluginVars, sweepVars>>

DeclareFunctionRoute(d) ==
    /\ Len(function_routes) < MaxFunctionRoutes
    /\ SetRegistry(WithFunctionRoute(Registry, d))
    /\ last' = [op |-> "Http", name |-> d.func_name, registered |-> ~d.nested,
                decl |-> d]
    /\ UNCHANGED <<resolved, router, domain_modules, appVars, _cmd_handlers,
                   pluginVars, sweepVars>>

\* _normalize_path(path) called on its own
NormalizePath(path) ==
    /\ last' = [op |-> "_normalize_path", path |-> path,
                result |-> _normalize_path(path)]
    /\ UNCHANGED <<routeVars, appVars, _cmd_handlers, pluginVars, sweepVars>>

\* RouterRegistry.get_routes()
CallGetRoutes ==
    /\ resolved' = get_routes(controllers)
    /\ last' = [op |-> "get_routes"]
    /\ UNCHANGED <<registryVars, router, domain_modules, appVars, _cmd_handlers,
                   pluginVars, sweepVars>>

\* RouterRegistry.as_fastapi_router()
CallAsFastapiRouter ==
    /\ router' = as_fastapi_router(controllers, function_routes)
    /\ last' = [op |-> "as_fastapi_router"]
    /\ UNCHANGED <<registryVars, resolved, domain_modules, appVars, _cmd_handlers,
                   pluginVars, sweepVars>>

\* RouterRegistry.load(): importing a module runs its decorators; a module
\* whose import raises ends the walk, the modules before it stay imported
RECURSIVE load(_, _)
load(reg, modules) ==
    IF modules = <<>> THEN [reg |-> reg, pending |-> <<>>, outcome |-> "ok"]
    ELSE LET m == Head(modules)
         IN  IF m.kind = "broken"
             THEN [reg |-> reg, pending |-> modules, outcome |-> "ImportError"]
             ELSE load(IF m.kind = "controller" THEN WithController(reg, m.decl)
                       ELSE WithFunctionRoute(reg, m.decl),
                       Tail(modules))

----------------------------------------------------------------------------
(* app.py: App.create, App.register_cmd, App._cmd, App.enable *)

\* the lifespan's position: the section it is in, the item and hook its loop
\* stands at, and pending, the hook calls started that have not returned
Idle == [phase |-> "idle", i |-> 0, hook |-> "none", pending |-> {}]

\* faulty variant: a router whose routes the application already holds is
\* not included again
include_router_Once(routes, r) ==
    IF \A i \in 1..Len(r) : \E j \in 1..Len(routes) : routes[j] = r[i]
    THEN routes
    ELSE routes \o r

\* app.include_router(router), line 175: the router's routes are added to
\* those the application holds
include_router(routes, r) == routes \o r

\* faulty variant: the application is stored before discovery and binding
create_StoreFirst(reg, modules, stored, app) ==
    LET l == load(reg, modules)
    IN  [outcome |-> l.outcome, reg |-> l.reg, pending |-> l.pending,
         built |-> IF l.outcome = "ok"
                   THEN as_fastapi_router(l.reg.controllers, l.reg.function_routes)
                   ELSE <<>>,
         binds |-> IF l.outcome = "ok" THEN 1 ELSE 0,
         fastapi |-> app]

\* App.create(**fastapi_kwargs), lines 160-179: app is the FastAPI application
\* built with combined_lifespan, stored the handle before the call.  binds
\* counts the calls of RouterRegistry.as_fastapi_router().
create(reg, modules, stored, app) ==
    LET l == load(reg, modules)
    IN  IF l.outcome # "ok"
        THEN [outcome |-> l.outcome, reg |-> l.reg, pending |-> l.pending,
              built |-> <<>>, binds |-> 0, fastapi |-> stored]
        ELSE [outcome |-> "ok", reg |-> l.reg, pending |-> <<>>,
              built |-> as_fastapi_router(l.reg.controllers, l.reg.function_routes),
              binds |-> 1, fastapi |-> app]

\* App.create(lifespan=...) where user says whether a lifespan was passed.
\* It is taken before the server has entered the stored application's lifespan.
Create(user) ==
    /\ fastapi < MaxCreate
    /\ lifespan.phase = "idle"
    /\ LET r == create(Registry, domain_modules, fastapi, fastapi + 1)
       IN  /\ SetRegistry(r.reg)
           /\ domain_modules' = r.pending
           /\ router' = IF r.outcome = "ok" THEN r.built ELSE router
           /\ app_routes' = IF r.outcome = "ok" THEN include_router(<<>>, r.built)
                            ELSE app_routes
           /\ user_lifespan' = IF r.outcome = "ok" THEN user ELSE user_lifespan
           /\ fastapi' = r.fastapi
           /\ last' = [op |-> "create", outcome |-> r.outcome, app |-> r.fastapi,
                       before |-> fastapi, binds |-> r.binds]
    /\ UNCHANGED <<resolved, _cmd_handlers, pluginVars, sweepVars>>

\* the bind step of create(), lines 174-175, taken again on the stored
\* application: App.fastapi.include_router(RouterRegistry.as_fastapi_router())
Bind ==
    /\ fastapi # NoApp
    /\ LET r == as_fastapi_router(controllers, function_routes)
       IN  /\ Len(app_routes) + Len(r) <= MaxBind * Len(r)
           /\ router' = r
           /\ app_routes' = include_router(app_routes, r)
           /\ last' = [op |-> "bind", before |-> app_routes]
    /\ UNCHANGED <<registryVars, resolved, domain_modules, fastapi, user_lifespan,
                   _cmd_handlers, pluginVars, sweepVars>>

\* faulty variant: a name already registered keeps its handler
register_cmd_KeepFirst(handlers, name, h) ==
    IF name \in DOMAIN handlers THEN handlers ELSE SetItem(handlers, name, h)

\* App.register_cmd(name, handler): cls._cmd_handlers[name] = handler
register_cmd(handlers, name, h) == SetItem(handlers, name, h)

\* App.register_cmd(name, handler); replaced: the handler the name had
RegisterCmd(name, h) ==
    /\ name \in DOMAIN _cmd_handlers \/ Cardinality(DOMAIN _cmd_handlers) < MaxRegisterCmd
    /\ _cmd_handlers' = register_cmd(_cmd_handlers, name, h)
    /\ last' = [op |-> "register_cmd", name |-> name, fn |-> h.id,
                replaced |-> IF name \in DOMAIN _cmd_handlers
                             THEN _cmd_handlers[name].id ELSE "none"]
    /\ UNCHANGED <<routeVars, appVars, pluginVars, sweepVars>>

\* App._cmd(name, **kwargs)
CallCmd(name, kwargs) ==
    /\ LET r == _cmd(_cmd_handlers, fastapi, name, kwargs)
       IN  last' = [op |-> "_cmd", name |-> name, kwargs |-> kwargs,
                    outcome |-> r.outcome, value |-> r.value, calls |-> r.calls]
    /\ UNCHANGED <<routeVars, appVars, _cmd_handlers, pluginVars, sweepVars>>

\* the sweeps iterate the dict: no activation while one is running
NotSweeping == lifespan.phase \in {"idle", "serving", "done"}

Activate(op, name, p, kwargs, a) ==
    /\ NotSweeping
    /\ HasKey(_plugin_instances, name) \/ Len(_plugin_instances) < MaxEnable
    /\ plugin' = a.plugin
    /\ _plugin_instances' = a.instances
    /\ last' = [op |-> op, p |-> p, kwargs |-> kwargs, outcome |-> a.outcome,
                value |-> a.value, calls |-> a.calls,
                was |-> HasKey(_plugin_instances, name)]
    /\ UNCHANGED <<routeVars, appVars, _cmd_handlers, configVars, sweepVars>>

\* App.enable(plugin, **plugin_kwargs)
AppEnable(p, kwargs) ==
    Activate("enable", p.public_name, p, kwargs,
             enable(_cmd_handlers, fastapi, plugin, _plugin_instances, p, kwargs))

\* PluginRegistry._enable_plugin_instance(plugin, **plugin_kwargs)
EnablePluginInstance(p, kwargs) ==
    Activate("_enable_plugin_instance", PName(p), p, kwargs,
             _enable_plugin_instance(_cmd_handlers, fastapi, plugin,
                                     _plugin_instances, p, kwargs))

\* PluginRegistry.configurePlugin(plugin, **config)
ConfigurePlugin(p, config) ==
    /\ _plugin_config' = IF p.is_plugin
                         THEN SetItem(_plugin_config, p.cls, ConfigEntry(p, config))
                         ELSE _plugin_config
    /\ last' = [op |-> "configurePlugin", p |-> p, config |-> config,
                outcome |-> IF p.is_plugin THEN "ok" ELSE "NotAPlugin"]
    /\ UNCHANGED <<routeVars, appVars, _cmd_handlers, plugin, _plugin_instances,
                   enabled_plugins, sweepVars>>

\* PluginRegistry._load_enabled_plugins(metadata_only)
LoadEnabledPlugins(metadata_only) ==
    /\ NotSweeping
    /\ LET a == _load_enabled_plugins(_cmd_handlers, fastapi, plugin, _plugin_instances,
                                      _plugin_config, enabled_plugins, metadata_only)
       IN  /\ plugin' = a.plugin
           /\ _plugin_instances' = a.instances
           /\ last' = [op |-> "_load_enabled_plugins", metadata_only |-> metadata_only,
                       outcome |-> a.outcome, calls |-> a.calls, done |-> a.done]
    /\ UNCHANGED <<routeVars, appVars, _cmd_handlers, configVars, sweepVars>>

\* PluginRegistry.ensure_enabled(plugin_name): raises if the name is not a key
\* of cls._plugin_instances, returns True otherwise
ensure_enabled(insts, plugin_name) ==
    IF ~HasKey(insts, plugin_name)
    THEN [outcome |-> "PluginRuntimeError", result |-> FALSE]
    ELSE [outcome |-> "ok", result |-> TRUE]

\* a caller asks whether the plugin of that name is enabled
EnsureEnabled(plugin_name) ==
    /\ LET r == ensure_enabled(_plugin_instances, plugin_name)
       IN  last' = [op |-> "ensure_enabled", name |-> plugin_name,
                    outcome |-> r.outcome, result |-> r.result]
    /\ UNCHANGED <<routeVars, appVars, _cmd_handlers, pluginVars, sweepVars>>

----------------------------------------------------------------------------
(* app.py: combined_lifespan *)

\* faulty variant: the hook is handed what the plugin's _internal returns
SweepCall_InternalResult(item, hook) ==
    [name |-> item.name, instance |-> item.instance, hook |-> hook, app |-> fastapi,
     api |-> item.instance.internal]

\* the entry of a sweep's log for plugin.<hook>(cls, app, plugin_api)
SweepCall(item, hook) ==
    [name |-> item.name, instance |-> item.instance, hook |-> hook, app |-> fastapi,
     api |-> GetAttrOrNone(plugin, item.name)]

\* faulty variant: the loops walk the dict as it stood when create() built the
\* lifespan, which is empty: every activation needs the application
Items_AtCreate(d) == <<>>

\* faulty variant: the loops walk the dict backwards
Items_Reversed(d) == [i \in 1..Len(d) |-> d[Len(d) + 1 - i]]

\* list(d.items()) of the insertion-ordered dict, as both loops walk it
Items(d) == d

\* faulty variant: an exception of the hook is caught, the loop goes on
SweepStep_Swallow(log, item, hook, guarded) ==
    [log |-> IF guarded THEN Append(log, SweepCall(item, hook)) ELSE log,
     raised |-> FALSE]

\* one guarded hook call of a sweep: the call is made if the guard holds, and
\* nothing around it catches what the hook raises
SweepStep(log, item, hook, guarded) ==
    [log |-> IF guarded THEN Append(log, SweepCall(item, hook)) ELSE log,
     raised |-> guarded /\ hook \in item.instance.raises]

\* the lifespan generator was left by an exception of the hook of item i
Failed(i, hook) == [phase |-> "failed", i |-> i, hook |-> hook, pending |-> {}]

\* a hook whose call never returns, whose coroutine never resolves
NeverResolves(p, hook) == hook \in p.hangs

\* the loop's next position: the sync hook of the same item after its async
\* hook, the async hook of the next item after its sync hook
Advance(l) ==
    CASE l.hook = "on_ready_async" -> [l EXCEPT !.hook = "on_ready"]
      [] l.hook = "on_ready" -> [l EXCEPT !.hook = "on_ready_async", !.i = @ + 1]
      [] l.hook = "on_shutdown_async" -> [l EXCEPT !.hook = "on_shutdown"]
      [] l.hook = "on_shutdown" -> [l EXCEPT !.hook = "on_shutdown_async", !.i = @ + 1]

\* the call the loop stands at
Current(l) == [i |-> l.i, hook |-> l.hook]

\* faulty variant: the hook is started as a task of its own, the loop goes on
Await_NotAwaited(l) == [Advance(l) EXCEPT !.pending = l.pending \cup {Current(l)}]

\* `await plugin.<hook>(...)` and `plugin.<hook>(...)`: the generator stays
\* at the call until it returns
Await(l) == [l EXCEPT !.pending = @ \cup {Current(l)}]

\* the generator is inside the call it stands at
Suspended(l) == Current(l) \in l.pending

\* the lifespan after one guarded hook call was reached
AfterCall(l, r, guarded) ==
    IF r.raised THEN Failed(l.i, l.hook)
    ELSE IF guarded THEN Await(l)
    ELSE Advance(l)

\* the guard of each hook call of the startup sweep
StartupGuard(p, hook) == HasAttr(p, hook)

\* the guard of each hook call of the shutdown sweep
ShutdownGuard(p, hook) == InClassDict(p, hook)

\* faulty variant: the caller's lifespan is left only after the shutdown loop
PhaseAfter_ShutdownInsideUser(phase, user) ==
    CASE phase = "idle" -> "startup"
      [] phase = "startup" -> IF user THEN "entering" ELSE "serving"
      [] phase = "entering" -> "serving"
      [] phase = "serving" -> "shutdown"
      [] phase = "shutdown" -> IF user THEN "exiting" ELSE "done"
      [] phase = "exiting" -> "done"

\* combined_lifespan, lines 115-158: the section that follows each section.
\* entering / exiting are __aenter__ / __aexit__ of `async with user_lifespan(app)`,
\* serving is the time the generator is suspended at its yield.
PhaseAfter(phase, user) ==
    CASE phase = "idle" -> "startup"
      [] phase = "startup" -> IF user THEN "entering" ELSE "serving"
      [] phase = "entering" -> "serving"
      [] phase = "serving" -> IF user THEN "exiting" ELSE "shutdown"
      [] phase = "exiting" -> "shutdown"
      [] phase = "shutdown" -> "done"

\* the lifespan's position at the start of a section: both loops start at the
\* first item with their async hook
Enter(phase) ==
    CASE phase = "startup" -> [phase |-> phase, i |-> 1, hook |-> "on_ready_async",
                              pending |-> {}]
      [] phase = "shutdown" -> [phase |-> phase, i |-> 1, hook |-> "on_shutdown_async",
                               pending |-> {}]
      [] OTHER -> [phase |-> phase, i |-> 0, hook |-> "none", pending |-> {}]

\* what the caller's lifespan context sees when it is entered or left
UserEvent(ev) ==
    [ev |-> ev, startup_calls |-> Len(startup_log), shutdown_calls |-> Len(shutdown_log),
     registered |-> Len(_plugin_instances)]

\* the server enters the lifespan of the stored application
LifespanEnter ==
    /\ fastapi # NoApp
    /\ lifespan.phase = "idle"
    /\ lifespan' = Enter(PhaseAfter("idle", user_lifespan))
    /\ last' = [op |-> "lifespan"]
    /\ UNCHANGED <<routeVars, appVars, _cmd_handlers, pluginVars, startup_log,
                   shutdown_log, user_log>>

\* one plugin's await plugin.on_ready_async(...), if guarded in
StartupAsync ==
    /\ lifespan.phase = "startup"
    /\ lifespan.hook = "on_ready_async"
    /\ lifespan.i <= Len(Items(_plugin_instances))
    /\ ~Suspended(lifespan)
    /\ LET item == Items(_plugin_instances)[lifespan.i]
           guarded == StartupGuard(item.instance, "on_ready_async")
           r == SweepStep(startup_log, item, "on_ready_async", guarded)
       IN  /\ startup_log' = r.log
           /\ lifespan' = AfterCall(lifespan, r, guarded)
    /\ UNCHANGED <<routeVars, appVars, _cmd_handlers, pluginVars, shutdown_log, user_log, last>>

\* the same plugin's plugin.on_ready(...), if guarded in
StartupSync ==
    /\ lifespan.phase = "startup"
    /\ lifespan.hook = "on_ready"
    /\ ~Suspended(lifespan)
    /\ LET item == Items(_plugin_instances)[lifespan.i]
           guarded == StartupGuard(item.instance, "on_ready")
           r == SweepStep(startup_log, item, "on_ready", guarded)
       IN  /\ startup_log' = r.log
           /\ lifespan' = AfterCall(lifespan, r, guarded)
    /\ UNCHANGED <<routeVars, appVars, _cmd_handlers, pluginVars, shutdown_log, user_log, last>>

\* a hook call that was started returns; the generator, if it stands at that
\* call, goes on
HookReturn ==
    /\ \E c \in lifespan.pending :
           /\ ~NeverResolves(Items(_plugin_instances)[c.i].instance, c.hook)
           /\ lifespan' = LET l == [lifespan EXCEPT !.pending = @ \ {c}]
                          IN  IF c = Current(lifespan) THEN Advance(l) ELSE l
    /\ UNCHANGED <<routeVars, appVars, _cmd_handlers, pluginVars, startup_log,
                   shutdown_log, user_log, last>>

\* the startup loop is over: the lifespan yields, the application serves
StartupDone ==
    /\ lifespan.phase = "startup"
    /\ lifespan.hook = "on_ready_async"
    /\ lifespan.i > Len(Items(_plugin_instances))
    /\ lifespan' = Enter(PhaseAfter("startup", user_lifespan))
    /\ UNCHANGED <<routeVars, appVars, _cmd_handlers, pluginVars, startup_log,
                   shutdown_log, user_log, last>>

\* async with user_lifespan(app): the caller's context is entered, then yields
UserEnter ==
    /\ lifespan.phase = "entering"
    /\ user_log' = Append(user_log, UserEvent("enter"))
    /\ lifespan' = Enter(PhaseAfter("entering", user_lifespan))
    /\ UNCHANGED <<routeVars, appVars, _cmd_handlers, pluginVars, startup_log,
                   shutdown_log, last>>

\* the server shuts down: the lifespan resumes after its yield
ServingEnd ==
    /\ lifespan.phase = "serving"
    /\ lifespan' = Enter(PhaseAfter("serving", user_lifespan))
    /\ last' = [op |-> "lifespan"]
    /\ UNCHANGED <<routeVars, appVars, _cmd_handlers, pluginVars, startup_log,
                   shutdown_log, user_log>>

\* the serving period ends with an exception: it is thrown into the generator
\* at its yield, which no try/finally surrounds; the caller's context, if
\* any, is left with the exception, and the generator ends there
ServingRaises ==
    /\ lifespan.phase = "serving"
    /\ lifespan' = Enter("aborted")
    /\ user_log' = IF user_lifespan THEN Append(user_log, UserEvent("exit")) ELSE user_log
    /\ last' = [op |-> "lifespan"]
    /\ UNCHANGED <<routeVars, appVars, _cmd_handlers, pluginVars, startup_log,
                   shutdown_log>>

\* the caller's context is left: its teardown has run
UserExit ==
    /\ lifespan.phase = "exiting"
    /\ user_log' = Append(user_log, UserEvent("exit"))
    /\ lifespan' = Enter(PhaseAfter("exiting", user_lifespan))
    /\ UNCHANGED <<routeVars, appVars, _cmd_handlers, pluginVars, startup_log,
                   shutdown_log, last>>

ShutdownAsync ==
    /\ lifespan.phase = "shutdown"
    /\ lifespan.hook = "on_shutdown_async"
    /\ lifespan.i <= Len(Items(_plugin_instances))
    /\ ~Suspended(lifespan)
    /\ LET item == Items(_plugin_instances)[lifespan.i]
           guarded == ShutdownGuard(item.instance, "on_shutdown_async")
           r == SweepStep(shutdown_log, item, "on_shutdown_async", guarded)
       IN  /\ shutdown_log' = r.log
           /\ lifespan' = AfterCall(lifespan, r, guarded)
    /\ UNCHANGED <<routeVars, appVars, _cmd_handlers, pluginVars, startup_log, user_log, last>>

ShutdownSync ==
    /\ lifespan.phase = "shutdown"
    /\ lifespan.hook = "on_shutdown"
    /\ ~Suspended(lifespan)
    /\ LET item == Items(_plugin_instances)[lifespan.i]
           guarded == ShutdownGuard(item.instance, "on_shutdown")
           r == SweepStep(shutdown_log, item, "on_shutdown", guarded)
       IN  /\ shutdown_log' = r.log
           /\ lifespan' = AfterCall(lifespan, r, guarded)
    /\ UNCHANGED <<routeVars, appVars, _cmd_handlers, pluginVars, startup_log, user_log, last>>

ShutdownDone ==
    /\ lifespan.phase = "shutdown"
    /\ lifespan.hook = "on_shutdown_async"
    /\ lifespan.i > Len(Items(_plugin_instances))
    /\ lifespan' = Enter(PhaseAfter("shutdown", user_lifespan))
    /\ UNCHANGED <<routeVars, appVars, _cmd_handlers, pluginVars, startup_log,
                   shutdown_log, user_log, last>>

----------------------------------------------------------------------------
(* Specifications *)

\* what app/domains may hold when create() walks it
DomainTrees ==
    { <<>>,
      << [kind |-> "controller", decl |-> ItemController],
         [kind |-> "broken"] >>,
      << [kind |-> "controller", decl |-> UserController],
         [kind |-> "function",
          decl |-> [func_name |-> <<"p", "i", "n", "g">>, method |-> GET,
                    path |-> <<"p", "i", "n", "g">>, group |-> None,
                    nested |-> FALSE]] >> }

Empty ==
    /\ controllers = <<>>
    /\ function_routes = <<>>
    /\ declared = <<>>
    /\ resolved = <<>>
    /\ router = <<>>
    /\ fastapi = NoApp
    /\ app_routes = <<>>
    /\ _cmd_handlers = <<>>
    /\ plugin = <<>>
    /\ _plugin_instances = <<>>
    /\ _plugin_config = <<>>
    /\ user_lifespan = FALSE
    /\ user_log = <<>>
    /\ lifespan = Idle
    /\ startup_log = <<>>
    /\ shutdown_log = <<>>
    /\ last = NoOp

\* no .fastapi_opinionated/enabled_plugins.py, or an empty ENABLED_PLUGINS
Init == Empty /\ domain_modules \in DomainTrees /\ enabled_plugins = <<>>

\* the decorators and the registry alone, with nothing under app/domains
InitRoutes == Empty /\ domain_modules = <<>> /\ enabled_plugins = <<>>

NextRoutes ==
    \/ \E c \in ControllerClasses : DeclareController(c)
    \/ \E d \in FunctionDecls : DeclareFunctionRoute(d)
    \/ CallGetRoutes
    \/ CallAsFastapiRouter

SpecRoutes == InitRoutes /\ [][NextRoutes]_vars

\* the registry under declarations, resolution, binding and create()
NextRegistry ==
    \/ \E c \in {ItemController, EmptyController} : DeclareController(c)
    \/ \E d \in {x \in FunctionDecls : x.group = None} : DeclareFunctionRoute(d)
    \/ CallGetRoutes
    \/ CallAsFastapiRouter
    \/ Create(FALSE)

SpecRegistry == Init /\ [][NextRegistry]_vars

\* the command table
NextCmd ==
    \/ \E n \in CommandNames, h \in Handlers : RegisterCmd(n, h)
    \/ Create(FALSE)
    \/ \E n \in CommandNames, k \in Kwargs : CallCmd(n, k)
    \/ Bind

SpecCmd == Init /\ [][NextCmd]_vars

\* the @AppCmd decorations of the plugin modules
PluginCommands ==
    { <<"socket.enable", "socket_internal">>, <<"socket.enable", "void_internal">>,
      <<"socket.enable", "other_internal">>,
      <<"plain.enable", "other_internal">>, <<"plain.enable", "broken_internal">> }

HandlerOf(id) == CHOOSE h \in Handlers : h.id = id

\* plugin activation
NextActivate ==
    \/ \E c \in PluginCommands : RegisterCmd(c[1], HandlerOf(c[2]))
    \/ Create(FALSE)
    \/ \E n \in CommandNames : CallCmd(n, NoKwargs)
    \/ \E p \in Objects, k \in Kwargs : AppEnable(p, k)
    \/ \E p \in PluginObjects, k \in Kwargs : EnablePluginInstance(p, k)

SpecActivate == InitRoutes /\ [][NextActivate]_vars

\* the lifespan of the application over the plugins activated
SweepCommands ==
    { <<"socket.enable", "socket_internal">>, <<"plain.enable", "other_internal">> }

\* the plugins activated around the sweeps: with own, inherited and default
\* hooks, with hooks that raise or never return, two of them under one name
SweepPlugins ==
    {SocketPlugin, AdminPlugin, DocsPlugin, FailingPlugin, LatePlugin, StuckPlugin,
     ShadowPlugin}

NextLifespan ==
    \/ LifespanEnter
    \/ StartupAsync
    \/ StartupSync
    \/ HookReturn
    \/ StartupDone
    \/ UserEnter
    \/ ServingEnd
    \/ ServingRaises
    \/ UserExit
    \/ ShutdownAsync
    \/ ShutdownSync
    \/ ShutdownDone

NextSweep ==
    \/ \E c \in SweepCommands : RegisterCmd(c[1], HandlerOf(c[2]))
    \/ \E u \in BOOLEAN : Create(u)
    \/ \E p \in SweepPlugins \ {StuckPlugin} : AppEnable(p, NoKwargs)
    \/ \E p \in SweepPlugins : EnablePluginInstance(p, NoKwargs)
    \/ NextLifespan

SpecSweep == InitRoutes /\ [][NextSweep]_vars

\* the lists ENABLED_PLUGINS may hold
MaxEnabled == 2

RECURSIVE PathLists(_)
PathLists(n) ==
    IF n = 0 THEN {<<>>}
    ELSE PathLists(n - 1)
         \cup {Append(l, c.cls) : l \in {x \in PathLists(n - 1) : Len(x) = n - 1},
                                  c \in LoadClasses}

InitLoad ==
    Empty /\ domain_modules = <<>> /\ enabled_plugins \in PathLists(MaxEnabled)

LoadCommands == { <<"socket.enable", "socket_internal">> }

NextLoad ==
    \/ \E c \in LoadCommands : RegisterCmd(c[1], HandlerOf(c[2]))
    \/ \E p \in LoadClasses \cup {LookalikeObject}, k \in Kwargs : ConfigurePlugin(p, k)
    \/ Create(FALSE)
    \/ \E m \in BOOLEAN : LoadEnabledPlugins(m)
    \/ \E p \in LoadClasses : EnsureEnabled(p.public_name)

SpecLoad == InitLoad /\ [][NextLoad]_vars

\* the raw paths a decorator may be given: None and every text of up to
\* MaxPathLen characters among a slash, a blank and a letter
MaxPathLen == 4

PathChars == {"/", " ", "l"}

RECURSIVE Texts(_)
Texts(n) ==
    IF n = 0 THEN {<<>>}
    ELSE Texts(n - 1)
         \cup {Append(t, c) : t \in {x \in Texts(n - 1) : Len(x) = n - 1},
                              c \in PathChars}

RawPaths == {None} \cup Texts(MaxPathLen)

NextNormalize == \E path \in RawPaths : NormalizePath(path)

SpecNormalize == InitRoutes /\ [][NextNormalize]_vars

Next ==
    NextRoutes \/ NextCmd \/ NextActivate \/ NextSweep \/ NextLoad \/ NextNormalize

Spec == Init /\ [][Next]_vars

----------------------------------------------------------------------------
(* Route resolution order *)

\* (verb, absolute path) of a resolved route
RouteKey(r) == <<r.http_method, r.path>>

\* (verb, absolute path) of the routes of a class, in the order its body declares them
DeclaredKeys(c) ==
    [i \in 1..Len(c.body) |->
        <<Upper(c.body[i].method), c.base \o _normalize_path(c.body[i].path)>>]

\* C1: the resolved route list holds the controllers' routes in controller
\* registration order and, within a controller, in the order the class body
\* declares the methods (UserController: [GET /users/, POST /users/create]).
C1_DeclarationOrder ==
    last.op = "get_routes" =>
        SeqMap(RouteKey, resolved) = Flatten(SeqMap(DeclaredKeys, declared))

\* number of routes the registered controllers contribute
ControllerRouteCount == Len(get_routes(controllers))

\* C2 as stated: get_routes returns the controller routes followed by every
\* registered function-route, in registration order.
C2_GetRoutesHoldsFunctionRoutes ==
    last.op = "get_routes" =>
        /\ Len(resolved) = ControllerRouteCount + Len(function_routes)
        /\ \A i \in 1..Len(function_routes) :
               /\ resolved[ControllerRouteCount + i].handler = function_routes[i].handler
               /\ resolved[ControllerRouteCount + i].path = function_routes[i].path

\* C2 amended: get_routes returns controller-derived routes only; the router
\* built by as_fastapi_router holds every registered function-route, in
\* registration order, after all controller-derived routes.
C2_RouterHoldsFunctionRoutes ==
    /\ last.op = "get_routes" =>
           \A i \in 1..Len(resolved) : resolved[i].handler.instance # 0
    /\ last.op = "as_fastapi_router" =>
           /\ Len(router) = ControllerRouteCount + Len(function_routes)
           /\ \A i \in 1..ControllerRouteCount : router[i].handler.instance # 0
           /\ \A i \in 1..Len(function_routes) :
                  LET r == router[ControllerRouteCount + i]
                      f == function_routes[i]
                  IN  /\ r.handler = f.handler
                      /\ r.path = f.path
                      /\ r.methods = <<f.http_method>>
                      /\ r.tags = <<f.group>>

C2_Witness ==
    /\ last.op = "as_fastapi_router"
    /\ Len(function_routes) = 2
    /\ function_routes[1] # function_routes[2]
    /\ ControllerRouteCount >= 2

----------------------------------------------------------------------------
(* Plugin activation *)

IsActivation == last.op \in {"enable", "_enable_plugin_instance"}

\* the name the latest activation registers its plugin under
LastName ==
    IF last.op = "enable" THEN last.p.public_name ELSE PName(last.p)

\* number of entries of the instance dict under a name
Entries(name) ==
    Cardinality({i \in 1..Len(_plugin_instances) : _plugin_instances[i].name = name})

InstanceAt(name) ==
    _plugin_instances[CHOOSE i \in 1..Len(_plugin_instances) :
                          _plugin_instances[i].name = name].instance

\* the handler calls among the steps of the latest operation
HandlerCalls == SelectSeq(last.calls, LAMBDA e : e.ev = "handler")

\* C3: activating a plugin with returns_plugin_api = True whose initializer,
\* invoked through the command table under command_name with the plugin's
\* config, returns a non-None value v ends with plugin.<public_name> = v and
\* the plugin in _plugin_instances exactly once.
C3_ApiPluginRegistered ==
    (IsActivation /\ last.p.returns_plugin_api /\ last.outcome = "ok") =>
        /\ last.p.command_name \in DOMAIN _cmd_handlers
        /\ HandlerCalls =
               <<HandlerCall(_cmd_handlers[last.p.command_name], fastapi, last.kwargs)>>
        /\ last.value = _cmd_handlers[last.p.command_name].returns
        /\ last.value # NoApi
        /\ last.p.public_name \in DOMAIN plugin
        /\ plugin[last.p.public_name] = last.value
        /\ Entries(last.p.public_name) = 1
        /\ InstanceAt(last.p.public_name) = last.p

C3_Witness ==
    /\ last.op = "_enable_plugin_instance"
    /\ last.p = SocketPlugin
    /\ last.outcome = "ok"
    /\ plugin["socket"] = "SocketApi"
    /\ Len(_plugin_instances) = 2

C4_WitnessReturns ==
    /\ last.op = "_enable_plugin_instance"
    /\ last.p = DocsPlugin
    /\ last.outcome = "ok"
    /\ plugin["docs"] = NoApi

\* position of a step in the activation state machine
StepRank(e) ==
    CASE e.ev = "on_pre_enable" -> 1
      [] e.ev \in {"handler", "_internal"} -> 2
      [] e.ev = "on_enable" -> 3
      [] e.ev = "register" -> 4
      [] e.ev = "on_post_enable" -> 5

\* C5: within one activation the steps occur in the order pre-enable hook,
\* internal initializer, enable hook, registration, post-enable hook; in a
\* successful one every overridden hook is among them and the enable and
\* post-enable hooks receive the api written to the namespace.
C5_ActivationOrder ==
    IsActivation =>
        /\ \A i, j \in 1..Len(last.calls) :
               i < j => StepRank(last.calls[i]) < StepRank(last.calls[j])
        /\ last.outcome = "ok" =>
              /\ \E i \in 1..Len(last.calls) :
                     /\ last.calls[i].ev = "register"
                     /\ last.calls[i].name = LastName
                     /\ last.calls[i].api = plugin[LastName]
              /\ \A i \in 1..Len(last.calls) :
                     last.calls[i].ev \in {"on_enable", "on_post_enable"} =>
                         last.calls[i].api = plugin[LastName]
              /\ last.op = "_enable_plugin_instance" =>
                     \A h \in BaseActivationHooks :
                         Overrides(last.p, h) <=>
                             \E i \in 1..Len(last.calls) : last.calls[i].ev = h

\* all five steps were taken, with a non-None api
C5_Witness ==
    /\ last.op = "_enable_plugin_instance"
    /\ last.outcome = "ok"
    /\ Len(last.calls) = 5
    /\ last.calls[3].api = "SocketApi"

----------------------------------------------------------------------------
(* The lifespan sweeps *)

\* position of a name in the instance dict
IndexOf(name) ==
    CHOOSE i \in 1..Len(_plugin_instances) : _plugin_instances[i].name = name

\* the calls of a sweep's log follow the insertion order of the instance dict
InInsertionOrder(log) ==
    /\ \A i \in 1..Len(log) : HasKey(_plugin_instances, log[i].name)
    /\ \A i, j \in 1..Len(log) :
           i < j => IndexOf(log[i].name) <= IndexOf(log[j].name)

\* C6: the startup sweep visits the plugins in the insertion order of
\* _plugin_instances, and the shutdown sweep visits them in that same order,
\* not reversed.
C6_SweepOrder ==
    /\ InInsertionOrder(startup_log)
    /\ InInsertionOrder(shutdown_log)

\* two plugins, A activated before B: both sweeps called A's hook, then B's
C6_Witness ==
    /\ lifespan.phase = "done"
    /\ Keys(_plugin_instances) = <<"socket", "admin">>
    /\ \E i, j \in 1..Len(startup_log) :
          i < j /\ startup_log[i].name = "socket" /\ startup_log[j].name = "admin"
    /\ \E i, j \in 1..Len(shutdown_log) :
          i < j /\ shutdown_log[i].name = "socket" /\ shutdown_log[j].name = "admin"

\* C7: in the startup sweep a ready hook is invoked only if the plugin
\* overrides it; an inherited BasePlugin default is never invoked.
C7_ReadyOnlyIfOverridden ==
    \A i \in 1..Len(startup_log) :
        Overrides(startup_log[i].instance, startup_log[i].hook)

\* the plugins the running shutdown sweep has dealt with
Visited == 1..(lifespan.i - 1)

CalledAtShutdown(k, hook) ==
    \E i \in 1..Len(shutdown_log) :
        /\ shutdown_log[i].name = _plugin_instances[k].name
        /\ shutdown_log[i].hook = hook

\* C8: in the shutdown sweep a plugin's shutdown hooks are invoked if and
\* only if they differ from BasePlugin's, also when the override comes from
\* an intermediate class.
C8_ShutdownIffOverridden ==
    lifespan.phase = "shutdown" =>
        \A k \in Visited, h \in {"on_shutdown_async", "on_shutdown"} :
            CalledAtShutdown(k, h) <=> Overrides(_plugin_instances[k].instance, h)

----------------------------------------------------------------------------
(* The command table *)

C9_WitnessUnregistered ==
    /\ last.op = "_cmd"
    /\ fastapi = NoApp
    /\ _cmd_handlers # <<>>
    /\ last.outcome = "CommandNotFound"

\* C10: on a bound container _cmd calls the handler registered under the
\* name once with (App, fastapi, **kwargs), returns its result unchanged when
\* that is not None and fails with the returned-None error when it is; for an
\* unregistered name it fails with the not-found error and calls no handler.
C10_InvokeContract ==
    (last.op = "_cmd" /\ fastapi # NoApp) =>
        IF last.name \in DOMAIN _cmd_handlers
        THEN LET h == _cmd_handlers[last.name]
             IN  /\ last.calls = <<[ev |-> "handler", fn |-> h.id, core |-> "App",
                                    app |-> fastapi, kwargs |-> last.kwargs]>>
                 /\ (~h.raises /\ h.returns # NoApi) =>
                        last.outcome = "ok" /\ last.value = h.returns
                 /\ (~h.raises /\ h.returns = NoApi) =>
                        last.outcome = "CommandReturnedNothing"
        ELSE last.outcome = "CommandNotFound" /\ last.calls = <<>>

C10_Witness ==
    /\ last.op = "_cmd"
    /\ fastapi # NoApp
    /\ last.outcome = "ok"
    /\ last.value = "OtherApi"
    /\ last.kwargs # NoKwargs

C10_WitnessNone ==
    /\ last.op = "_cmd"
    /\ fastapi # NoApp
    /\ last.outcome = "CommandReturnedNothing"
    /\ Len(last.calls) = 1

----------------------------------------------------------------------------
(* Operations on a container whose serving handle is not set *)

\* the operations that run handlers, initializers or activation hooks
RunsCode(op) == op \in {"_cmd", "enable", "_enable_plugin_instance"}

UnboundError(l) ==
    IF l.op = "_cmd" /\ l.name \notin DOMAIN _cmd_handlers THEN "CommandNotFound"
    ELSE IF l.op = "enable" /\ ~l.p.is_plugin THEN "NotAPlugin"
    ELSE "ServingHandleNotReady"

C11_WitnessInvoke ==
    /\ fastapi = NoApp
    /\ last.op = "_cmd"
    /\ last.name \in DOMAIN _cmd_handlers
    /\ last.outcome = "ServingHandleNotReady"

\* C12: App.enable of an object that is not a plugin fails with NotAPlugin,
\* bound or not; an activation of a plugin on the unbound container fails with
\* ServingHandleNotReady; in both cases no handler or hook runs and the
\* namespace, the activated plugins and the command table stay as they were.
C12_ActivationRefused ==
    [][/\ (last'.op = "enable" /\ ~last'.p.is_plugin)
          => /\ last'.outcome = "NotAPlugin"
             /\ last'.calls = <<>>
             /\ UNCHANGED <<_cmd_handlers, plugin, _plugin_instances>>
       /\ (last'.op \in {"enable", "_enable_plugin_instance"}
           /\ last'.p.is_plugin /\ fastapi = NoApp)
          => /\ last'.outcome = "ServingHandleNotReady"
             /\ last'.calls = <<>>
             /\ UNCHANGED <<_cmd_handlers, plugin, _plugin_instances>>]_vars

\* the look-alike was refused on a bound container that holds its command
C12_Witness ==
    /\ last.op = "enable"
    /\ last.p = LookalikeObject
    /\ fastapi # NoApp
    /\ LookalikeObject.command_name \in DOMAIN _cmd_handlers
    /\ last.outcome = "NotAPlugin"
    /\ DOMAIN plugin = {}

\* App.enable of a plugin whose command is registered, before create()
C12_WitnessUnbound ==
    /\ last.op = "enable"
    /\ last.p = SocketPlugin
    /\ fastapi = NoApp
    /\ "socket.enable" \in DOMAIN _cmd_handlers
    /\ last.outcome = "ServingHandleNotReady"

----------------------------------------------------------------------------
(* The sweep over ENABLED_PLUGINS *)

\* the latest operation was an activating _load_enabled_plugins()
LoadedLast == last.op = "_load_enabled_plugins" /\ ~last.metadata_only

\* the path at which the latest sweep stopped
StoppedAt == enabled_plugins[last.done + 1]

\* configuration was supplied: configurePlugin stored a non-empty config
Supplied(path) == ConfigOf(_plugin_config, path) # NoKwargs

C13_WitnessUnconfigured ==
    /\ LoadedLast
    /\ fastapi # NoApp
    /\ enabled_plugins = <<"DocsPlugin", "SecurePlugin">>
    /\ "SecurePlugin" \notin DOMAIN _plugin_config
    /\ last.outcome = "MissingRequiredConfig"
    /\ last.done = 1
    /\ "secure" \notin DOMAIN plugin

\* configurePlugin(SecurePlugin()) without any setting supplies nothing
C13_WitnessEmptyConfig ==
    /\ LoadedLast
    /\ fastapi # NoApp
    /\ "SecurePlugin" \in DOMAIN _plugin_config
    /\ last.outcome = "MissingRequiredConfig"

----------------------------------------------------------------------------
(* Failed and repeated activations *)

\* C14: an activation that fails in any step (pre-enable hook, command,
\* enable hook, post-enable hook) of a plugin not registered before leaves the
\* plugin absent from the namespace and from the activated plugins.
C14_FailedActivationAbsent ==
    (IsActivation /\ last.outcome # "ok" /\ ~last.was)
    => /\ LastName \notin DOMAIN plugin
       /\ ~HasKey(_plugin_instances, LastName)

\* C15: once a name is in the namespace its api value never changes, whatever
\* operation follows, a further activation under the same name included.
C15_ApiWrittenOnce ==
    [][\A n \in DOMAIN plugin : n \in DOMAIN plugin' /\ plugin'[n] = plugin[n]]_vars

----------------------------------------------------------------------------
(* App.create *)

\* C16: the handle is set only by a create() whose discovery and binding went
\* through, as its last step: while any module is left to import the handle is
\* None; a create() that raised left the handle as it was (None) and bound
\* nothing; one that returned stored the application it bound the routes of
\* the whole registry to.
C16_ReadyLast ==
    /\ fastapi = NoApp => app_routes = <<>>
    /\ fastapi # NoApp => domain_modules = <<>>
    /\ last.op = "create"
       => IF last.outcome = "ok"
          THEN /\ fastapi = last.app /\ fastapi # NoApp
               /\ app_routes = as_fastapi_router(controllers, function_routes)
          ELSE fastapi = last.before /\ fastapi = NoApp /\ domain_modules # <<>>

\* discovery raised after importing a controller module: handle still None
C16_Witness ==
    /\ last.op = "create"
    /\ last.outcome = "ImportError"
    /\ controllers # <<>>
    /\ fastapi = NoApp

\* create() returned: routes bound, handle set
C16_WitnessReady ==
    /\ last.op = "create"
    /\ last.outcome = "ok"
    /\ app_routes # <<>>
    /\ fastapi # NoApp

\* C17: when create() has returned, as_fastapi_router() was called exactly once
\* and every plugin of ENABLED_PLUGINS is activated: registered in the
\* namespace and in the activated plugins.
C17_CreateActivatesConfigured ==
    (last.op = "create" /\ last.outcome = "ok")
    => /\ last.binds = 1
       /\ \A i \in 1..Len(enabled_plugins) :
             LET inst == InstanceOf(_plugin_config, enabled_plugins[i])
             IN  /\ PName(inst) \in DOMAIN plugin
                 /\ HasKey(_plugin_instances, PName(inst))

----------------------------------------------------------------------------
(* combined_lifespan and the caller's lifespan *)

\* the startup hook calls made before the caller's lifespan event e cover
\* every plugin registered at that time
StartedBefore(e) ==
    \A k \in 1..e.registered :
        \A hook \in {"on_ready_async", "on_ready"} :
            StartupGuard(_plugin_instances[k].instance, hook)
            => \E j \in 1..e.startup_calls :
                   /\ startup_log[j].name = _plugin_instances[k].name
                   /\ startup_log[j].hook = hook

\* C18: the caller's lifespan is entered after every startup hook has been
\* called and none is called later; no shutdown hook is called before the
\* caller's lifespan has been left; with or without a caller's lifespan the
\* sections come in the order startup, serving, shutdown.
C18_LifespanOrder ==
    /\ \A i \in 1..Len(user_log) :
          /\ user_log[i].ev = "enter" => StartedBefore(user_log[i])
          /\ user_log[i].startup_calls = Len(startup_log)
          /\ user_log[i].shutdown_calls = 0
    /\ ~user_lifespan => user_log = <<>>
    /\ lifespan.phase \in {"idle", "startup", "entering"}
       => user_log = <<>> /\ shutdown_log = <<>>
    /\ lifespan.phase = "idle" => startup_log = <<>>
    /\ lifespan.phase \in {"serving", "exiting"}
       => /\ shutdown_log = <<>>
          /\ user_lifespan => Len(user_log) = 1 /\ user_log[1].ev = "enter"
    /\ lifespan.phase \in {"shutdown", "done"}
       => (user_lifespan
           => Len(user_log) = 2 /\ user_log[1].ev = "enter" /\ user_log[2].ev = "exit")

\* a whole run around a caller's lifespan, with hooks called on both sides
C18_Witness ==
    /\ lifespan.phase = "done"
    /\ user_lifespan
    /\ Len(user_log) = 2
    /\ startup_log # <<>>
    /\ shutdown_log # <<>>

\* a whole run without a caller's lifespan
C18_WitnessNoUser ==
    /\ lifespan.phase = "done"
    /\ ~user_lifespan
    /\ startup_log # <<>>
    /\ shutdown_log # <<>>

----------------------------------------------------------------------------
(* Path normalization *)

\* a missing, empty or whitespace-only path
Blank(path) == path = None \/ \A i \in 1..Len(path) : path[i] = " "

\* the text between the first and the last character that is not a blank
Core(path) ==
    LET solid == {i \in 1..Len(path) : path[i] # " "}
        first == CHOOSE i \in solid : \A j \in solid : i <= j
        final == CHOOSE i \in solid : \A j \in solid : j <= i
    IN  SubSeq(path, first, final)

\* C19 as stated: "/" for a missing, empty or whitespace-only path; a slash
\* prepended to a value without a leading slash; an already-rooted value
\* returned unchanged; every result begins with "/".
C19_NormalizeAsStated ==
    last.op = "_normalize_path"
    => /\ Head(last.result) = "/"
       /\ Blank(last.path) => last.result = <<"/">>
       /\ (~Blank(last.path) /\ Head(last.path) # "/")
          => last.result = <<"/">> \o last.path
       /\ (~Blank(last.path) /\ Head(last.path) = "/")
          => last.result = last.path

\* C19 (amended): the value is first stripped of the blanks around it; "/" for
\* a missing, empty or whitespace-only path; a slash prepended to a stripped
\* value without a leading slash; a stripped value with one returned as it
\* is; every result begins with "/".
C19_NormalizeStripped ==
    last.op = "_normalize_path"
    => /\ Head(last.result) = "/"
       /\ Blank(last.path) => last.result = <<"/">>
       /\ (~Blank(last.path) /\ Head(Core(last.path)) # "/")
          => last.result = <<"/">> \o Core(last.path)
       /\ (~Blank(last.path) /\ Head(Core(last.path)) = "/")
          => last.result = Core(last.path)

\* " l " became "/l": stripped, then rooted
C19_Witness ==
    /\ last.op = "_normalize_path"
    /\ last.path = <<" ", "l", " ">>
    /\ last.result = <<"/", "l">>

\* a rooted value without blanks around it came back unchanged
C19_WitnessRooted ==
    /\ last.op = "_normalize_path"
    /\ last.path = <<"/", "l", " ", "l">>
    /\ last.result = last.path

\* a whitespace-only value became "/"
C19_WitnessBlank ==
    /\ last.op = "_normalize_path"
    /\ last.path = <<" ", " ">>
    /\ last.result = <<"/">>

----------------------------------------------------------------------------
(* Resolved controller routes *)

\* the resolved route r is the method i of the k-th declared controller
ResolvesMethod(r, k, i) ==
    LET c == declared[k]
    IN  /\ r.handler = [instance |-> controllers[k].instance,
                        func |-> c.body[i].func_name]
        /\ r.path = c.base \o _normalize_path(c.body[i].path)
        /\ r.http_method = Upper(c.body[i].method)

\* C20: every resolved controller route is one declared method of one
\* declared controller: its path is the controller's base path followed by
\* the method's normalized path, its verb the declared verb in upper case,
\* its handler the method bound to the instance made when that controller
\* was declared; each declared method is resolved exactly once, and no two
\* controllers share an instance.
C20_ResolvedRoute ==
    last.op = "get_routes"
    => /\ \A n \in 1..Len(resolved) :
             \E k \in 1..Len(declared) :
                 \E i \in 1..Len(declared[k].body) :
                     ResolvesMethod(resolved[n], k, i)
       /\ \A k \in 1..Len(declared) :
             \A i \in 1..Len(declared[k].body) :
                 Cardinality({n \in 1..Len(resolved) :
                                 ResolvesMethod(resolved[n], k, i)}) = 1
       /\ \A k, j \in 1..Len(controllers) :
             controllers[k].instance = controllers[j].instance => k = j

\* the second controller's relative path and lower-case verb, resolved
C20_Witness ==
    /\ last.op = "get_routes"
    /\ Len(declared) = 2
    /\ declared[2] = ItemController
    /\ \E n \in 1..Len(resolved) :
          /\ resolved[n].path = <<"/", "i", "t", "e", "m", "s", "/", "a", "d", "d">>
          /\ resolved[n].http_method = <<"P", "U", "T">>
          /\ resolved[n].handler = [instance |-> controllers[2].instance,
                                    func |-> <<"a", "d", "d">>]

----------------------------------------------------------------------------
(* Route groups *)

\* the group derived from a path: slashes removed, upper case
DerivedGroup(path) == Upper(RemoveSlashes(path))

\* the group of the function-route the latest @Http registered
FunctionGroupOk ==
    (last.op = "Http" /\ last.registered)
    => function_routes[Len(function_routes)].group
       = IF Truthy(last.decl.group) THEN last.decl.group
         ELSE DerivedGroup(_normalize_path(last.decl.path))

\* C21 as stated: without an explicit group a route's group is derived from
\* that route's own path, for function-routes and for controller methods; an
\* explicit group is used unchanged.
C21_GroupFromOwnPath ==
    /\ FunctionGroupOk
    /\ last.op = "get_routes"
       => \A n \in 1..Len(resolved) :
              \A k \in 1..Len(declared) :
                  \A i \in 1..Len(declared[k].body) :
                      ResolvesMethod(resolved[n], k, i)
                      => resolved[n].group
                         = IF Truthy(declared[k].body[i].group)
                           THEN declared[k].body[i].group
                           ELSE DerivedGroup(_normalize_path(declared[k].body[i].path))

\* C21 (amended): a function-route without an explicit group gets the group
\* derived from its own normalized path; a controller method without one gets
\* the controller's group if the controller has one, else the group derived
\* from the controller's base path; an explicit group is used unchanged.
C21_GroupDefault ==
    /\ FunctionGroupOk
    /\ last.op = "get_routes"
       => \A n \in 1..Len(resolved) :
              \A k \in 1..Len(declared) :
                  \A i \in 1..Len(declared[k].body) :
                      ResolvesMethod(resolved[n], k, i)
                      => resolved[n].group
                         = IF Truthy(declared[k].body[i].group)
                           THEN declared[k].body[i].group
                           ELSE IF Truthy(declared[k].group) THEN declared[k].group
                           ELSE DerivedGroup(declared[k].base)

\* base-path group, controller group and explicit method group, resolved
C21_Witness ==
    /\ last.op = "get_routes"
    /\ declared = <<UserController, ItemController>>
    /\ SeqMap(LAMBDA r : r.group, resolved)
       = << <<"U", "S", "E", "R", "S">>, <<"U", "S", "E", "R", "S">>,
            <<"S", "h", "o", "p">>, <<"A", "d", "m">> >>

\* a function-route got the group derived from its own path
C21_WitnessFunction ==
    /\ last.op = "Http"
    /\ last.registered
    /\ last.decl.group = None
    /\ function_routes[Len(function_routes)].group = <<"P", "I", "N", "G">>

----------------------------------------------------------------------------
(* Determinism of route resolution *)

\* the controllers list of another process that applies the same @Controller
\* declarations in the same order; its instances are other objects
OtherRun(decls) ==
    [k \in 1..Len(decls) |-> ControllerMeta(decls[k], Len(decls) + k)]

\* what two processes can compare of a resolved route
RouteView(r) ==
    [http_method |-> r.http_method, path |-> r.path, group |-> r.group,
     func |-> r.handler.func, controller |-> r.controller]

----------------------------------------------------------------------------
(* The registry's lists *)

IsPrefix(a, b) == Len(a) <= Len(b) /\ SubSeq(b, 1, Len(a)) = a

\* C23: every operation leaves the entries already in controllers and in
\* function_routes where and as they were; a @Controller adds one entry at the
\* end of controllers, a registering @Http one at the end of function_routes;
\* get_routes and as_fastapi_router change neither list; create() changes
\* them only by the entries the modules it imports register, at the end.
C23_AppendOnly ==
    [][/\ IsPrefix(controllers, controllers')
       /\ IsPrefix(function_routes, function_routes')
       /\ last'.op = "Controller"
          => /\ Len(controllers') = Len(controllers) + 1
             /\ function_routes' = function_routes
       /\ last'.op = "Http"
          => /\ controllers' = controllers
             /\ Len(function_routes')
                = Len(function_routes) + IF last'.registered THEN 1 ELSE 0
       /\ last'.op \in {"get_routes", "as_fastapi_router"}
          => controllers' = controllers /\ function_routes' = function_routes
       /\ last'.op = "create"
          => Len(controllers') + Len(function_routes')
             = Len(controllers) + Len(function_routes)
               + Len(domain_modules) - Len(domain_modules')]_vars

\* a controller declared after create() discovered one, both still listed
C23_Witness ==
    /\ last.op = "Controller"
    /\ fastapi # NoApp
    /\ Len(controllers) = 2
    /\ controllers[1].controller_name = "UserController"
    /\ controllers[2].controller_name = "ItemController"
    /\ Len(function_routes) = 1
    /\ resolved # <<>>

----------------------------------------------------------------------------
(* Binding *)

\* the routes to bind, in resolution order: get_routes(), then function_routes
ToBind == get_routes(controllers) \o function_routes

\* C24: the router a bind call returns holds one route per resolved route, in
\* resolution order (controller routes, then function-routes), each with its
\* path, handler, verb and its group as tag; routes with the same verb and
\* path are all attached.
C24_BindsEveryRoute ==
    last.op = "as_fastapi_router"
    => /\ Len(router) = Len(ToBind)
       /\ \A n \in 1..Len(ToBind) :
             /\ router[n].path = ToBind[n].path
             /\ router[n].handler = ToBind[n].handler
             /\ router[n].methods = <<ToBind[n].http_method>>
             /\ router[n].tags = <<ToBind[n].group>>

\* the same controller class declared twice: both routes of a verb and path
\* are attached, and a function-route follows them
C24_Witness ==
    /\ last.op = "as_fastapi_router"
    /\ function_routes # <<>>
    /\ \E i, j \in 1..Len(router) :
          /\ i < j
          /\ router[i].path = router[j].path
          /\ router[i].methods = router[j].methods
          /\ router[i].handler # router[j].handler

\* number of times x is among the routes rs
Count(rs, x) == Cardinality({i \in 1..Len(rs) : rs[i] = x})

----------------------------------------------------------------------------
(* The command table *)

\* C26: register_cmd(name, handler) always goes through; after it the name
\* maps to that handler, whatever it mapped to before, and every other name
\* maps to what it did; no other operation changes the table; an invoke on
\* the bound container calls the handler the table holds for the name, so
\* the one registered last.
C26_LastWriterWins ==
    [][/\ last'.op = "register_cmd"
          => /\ DOMAIN _cmd_handlers' = DOMAIN _cmd_handlers \cup {last'.name}
             /\ _cmd_handlers'[last'.name].id = last'.fn
             /\ \A n \in DOMAIN _cmd_handlers \ {last'.name} :
                    _cmd_handlers'[n] = _cmd_handlers[n]
       /\ last'.op # "register_cmd" => _cmd_handlers' = _cmd_handlers
       /\ (last'.op = "_cmd" /\ fastapi # NoApp /\ last'.name \in DOMAIN _cmd_handlers)
          => /\ Len(last'.calls) = 1
             /\ last'.calls[1].fn = _cmd_handlers[last'.name].id]_vars

\* a name was registered again with another handler, beside another name
C26_Witness ==
    /\ last.op = "register_cmd"
    /\ last.replaced \notin {"none", last.fn}
    /\ _cmd_handlers[last.name].id = last.fn
    /\ DOMAIN _cmd_handlers # {last.name}

\* the handler registered last was the one invoked
C26_WitnessInvoke ==
    /\ last.op = "_cmd"
    /\ last.outcome = "ok"
    /\ last.value = "OtherApi"
    /\ last.name = "socket.enable"

----------------------------------------------------------------------------
(* Hook calls of one activation *)

\* the class of the plugin, or a base class of it below BasePlugin, defines the hook
Provides(p, hook) == hook \in p.own \/ hook \in p.inherited

\* number of calls of a hook among the steps of the latest operation
TimesCalled(hook) ==
    Cardinality({i \in 1..Len(last.calls) : last.calls[i].ev = hook})

\* the hook whose call ended the latest activation, "none" when none did
FailedHook ==
    IF last.outcome = "HookError" THEN last.calls[Len(last.calls)].ev ELSE "none"

\* the latest activation got as far as the step of this hook
ReachedHook(hook) ==
    CASE last.outcome = "ok" -> TRUE
      [] last.outcome = "ServingHandleNotReady" -> FALSE
      [] last.outcome = "HookError" -> StepRank([ev |-> hook]) <= StepRank([ev |-> FailedHook])
      [] OTHER -> hook = "on_pre_enable"

C27_WitnessPlain ==
    /\ last.op = "_enable_plugin_instance"
    /\ last.outcome = "ok"
    /\ last.p.cls = "PlainPlugin"
    /\ Len(last.calls) = 2

\* an activation ended by its enable hook never called its post-enable hook
C27_WitnessFailed ==
    /\ last.op = "_enable_plugin_instance"
    /\ last.outcome = "HookError"
    /\ Provides(last.p, "on_post_enable")
    /\ TimesCalled("on_post_enable") = 0

----------------------------------------------------------------------------
(* Exceptions of the lifecycle hooks *)

\* the hook of this entry of a sweep's log raised
RaisedIn(call) == call.hook \in call.instance.raises

\* C28: a ready or shutdown hook that raises ends the lifespan: its call is
\* the last of its sweep's log, so no later hook of that plugin or of a plugin
\* after it runs; after a raising ready hook the caller's lifespan is never
\* entered and the shutdown sweep calls nothing; and the lifespan ends this
\* way only through such a hook.
C28_HookErrorsPropagate ==
    /\ \A i \in 1..Len(startup_log) :
           RaisedIn(startup_log[i]) =>
               /\ i = Len(startup_log)
               /\ lifespan = Failed(IndexOf(startup_log[i].name), startup_log[i].hook)
               /\ user_log = <<>>
               /\ shutdown_log = <<>>
    /\ \A i \in 1..Len(shutdown_log) :
           RaisedIn(shutdown_log[i]) =>
               /\ i = Len(shutdown_log)
               /\ lifespan = Failed(IndexOf(shutdown_log[i].name), shutdown_log[i].hook)
    /\ lifespan.phase = "failed" =>
           \/ startup_log # <<>> /\ RaisedIn(startup_log[Len(startup_log)])
           \/ shutdown_log # <<>> /\ RaisedIn(shutdown_log[Len(shutdown_log)])

\* the ready hook of the first of two plugins raised under a caller's lifespan
C28_Witness ==
    /\ lifespan.phase = "failed"
    /\ lifespan.hook = "on_ready"
    /\ lifespan.i = 1
    /\ Len(_plugin_instances) = 2
    /\ user_lifespan

\* the shutdown hook of the first of two plugins raised, the second overriding its own
C28_WitnessShutdown ==
    /\ lifespan.phase = "failed"
    /\ lifespan.hook = "on_shutdown"
    /\ lifespan.i = 1
    /\ Len(_plugin_instances) = 2
    /\ InClassDict(_plugin_instances[2].instance, "on_shutdown")

----------------------------------------------------------------------------
(* A failure inside the activation sweep *)

\* the instance the sweep activates for the i-th path of ENABLED_PLUGINS
SweptInstance(i) == InstanceOf(_plugin_config, enabled_plugins[i])

\* the name it is registered under
SweptName(i) == PName(SweptInstance(i))

\* C29: when _load_enabled_plugins is ended by an exception of the turn of
\* one path, the plugins of the paths before it are registered with their
\* instance and have their namespace slot, and a plugin of a path after it,
\* unless the same plugin is listed up to the failing path as well, had no
\* step of its activation taken (no hook, no initializer, and no command
\* handler call beyond those of the paths up to the failing one) and is
\* registered, and has a slot, exactly if it was so before the sweep.
C29_FailureAbortsSweep ==
    [][(last'.op = "_load_enabled_plugins" /\ last'.outcome # "ok") =>
          /\ ~last'.metadata_only
          /\ last'.done < Len(enabled_plugins)
          /\ \A i \in 1..last'.done :
                 /\ HasKey(_plugin_instances', SweptName(i))
                 /\ \E k \in 1..Len(_plugin_instances') :
                        _plugin_instances'[k] =
                            [name |-> SweptName(i), instance |-> SweptInstance(i)]
                 /\ SweptName(i) \in DOMAIN plugin'
          /\ Len(SelectSeq(last'.calls, LAMBDA e : e.ev = "handler"))
                 <= Cardinality({i \in 1..(last'.done + 1) :
                                    SweptInstance(i).returns_plugin_api})
          /\ \A j \in (last'.done + 2)..Len(enabled_plugins) :
                 (\A i \in 1..(last'.done + 1) : SweptName(i) # SweptName(j)) =>
                     /\ \A k \in 1..Len(last'.calls) :
                            last'.calls[k].ev # "handler" =>
                                last'.calls[k].cls # SweptInstance(j).cls
                     /\ HasKey(_plugin_instances', SweptName(j))
                            <=> HasKey(_plugin_instances, SweptName(j))
                     /\ SweptName(j) \in DOMAIN plugin'
                            <=> SweptName(j) \in DOMAIN plugin]_vars

\* the first path failed on a bound application; the second one, a plugin
\* that nothing keeps from being activated, was left alone
C29_Witness ==
    /\ last.op = "_load_enabled_plugins"
    /\ last.outcome # "ok"
    /\ fastapi # NoApp
    /\ last.done = 0
    /\ Len(enabled_plugins) >= 2
    /\ enabled_plugins[2] = "DocsPlugin"
    /\ ~HasKey(_plugin_instances, "docs")

\* the first path was activated, the second failed: the first stays registered
C29_WitnessEarlier ==
    /\ last.op = "_load_enabled_plugins"
    /\ last.outcome # "ok"
    /\ last.done = 1
    /\ HasKey(_plugin_instances, SweptName(1))
    /\ SweptName(1) \in DOMAIN plugin

----------------------------------------------------------------------------
(* Asking for a plugin by name *)

\* the plugin of that name went through the registration step of an activation
Activated(name) == name \in DOMAIN plugin

\* C30: ensure_enabled(name) returns True exactly when the plugin of that name
\* was activated and fails with PluginRuntimeError exactly when it was not, a
\* plugin only loaded for its metadata counting as not activated.
C30_EnsureEnabledIffActivated ==
    last.op = "ensure_enabled" =>
        /\ last.outcome \in {"ok", "PluginRuntimeError"}
        /\ (last.outcome = "ok" /\ last.result) <=> Activated(last.name)
        /\ last.outcome = "PluginRuntimeError" <=> ~Activated(last.name)

\* what the code answers by: the name is a key of the instance dict
C30_EnsureEnabledIffRegistered ==
    last.op = "ensure_enabled" =>
        (last.outcome = "ok" /\ last.result) <=> HasKey(_plugin_instances, last.name)

\* a plugin loaded for its metadata only, never activated, is reported enabled
C30_MetadataOnlyReported ==
    /\ last.op = "ensure_enabled"
    /\ last.outcome = "ok"
    /\ ~Activated(last.name)
    /\ fastapi = NoApp

----------------------------------------------------------------------------
(* One hook at a time *)

\* the hook calls in progress that will never return
Stalled ==
    {c \in lifespan.pending :
        NeverResolves(_plugin_instances[c.i].instance, c.hook)}

\* C31: at most one hook call is in progress at any time; a hook is called,
\* and the lifespan passes to its next section (the serving period after the
\* startup sweep), only when no call is in progress; while a call that never
\* returns is in progress, the lifespan and both logs stay as they are.
C31_Sequential ==
    [][/\ Cardinality(lifespan'.pending) <= 1
       /\ (startup_log' # startup_log \/ shutdown_log' # shutdown_log)
              => lifespan.pending = {}
       /\ lifespan'.phase # lifespan.phase => lifespan.pending = {}
       /\ lifespan'.pending # {} => lifespan'.pending = {Current(lifespan')}
       /\ Stalled # {} => /\ lifespan' = lifespan
                          /\ startup_log' = startup_log
                          /\ shutdown_log' = shutdown_log
                          /\ user_log' = user_log]_vars

\* the async ready hook of the first of two plugins never resolves: the
\* startup sweep stands there, the second plugin's hooks were not called
C31_Witness ==
    /\ lifespan.phase = "startup"
    /\ Stalled = {[i |-> 1, hook |-> "on_ready_async"]}
    /\ Len(_plugin_instances) = 2
    /\ Len(startup_log) = 1

\* one plugin's async hook returned, its sync hook is in progress
C31_WitnessSync ==
    /\ lifespan.phase = "startup"
    /\ lifespan.pending = {[i |-> 1, hook |-> "on_ready"]}
    /\ Len(startup_log) = 2
    /\ startup_log[1].hook = "on_ready_async"
    /\ startup_log[1].name = startup_log[2].name

----------------------------------------------------------------------------
(* The api handed to the lifecycle hooks *)

\* the call a sweep's log gained in this step is the hook the loop stands at,
\* of the instance at that place of the instance dict, with the application
\* and with the namespace's value under the instance's key, None without one
CallOfCurrentItem(log, call) ==
    /\ call.hook = lifespan.hook
    /\ call.name = _plugin_instances[lifespan.i].name
    /\ call.instance = _plugin_instances[lifespan.i].instance
    /\ call.app = fastapi
    /\ call.api = IF call.name \in DOMAIN plugin THEN plugin[call.name] ELSE NoApi

----------------------------------------------------------------------------
(* An exception during the serving period *)

\* C33: when the serving period, or the caller's lifespan body, ended with an
\* exception, every registered plugin still had the shutdown hooks called
\* that the shutdown sweep calls.
C33_ShutdownAfterException ==
    lifespan.phase = "aborted" =>
        \A k \in 1..Len(_plugin_instances), h \in {"on_shutdown_async", "on_shutdown"} :
            ShutdownGuard(_plugin_instances[k].instance, h) => CalledAtShutdown(k, h)

\* startup hooks ran, the lifespan ended, no shutdown hook was called
C33_ShutdownSkipped ==
    /\ lifespan.phase = "aborted"
    /\ startup_log # <<>>
    /\ shutdown_log = <<>>
    /\ \E k \in 1..Len(_plugin_instances) :
           ShutdownGuard(_plugin_instances[k].instance, "on_shutdown")

----------------------------------------------------------------------------
(* Plugins activated after create() *)

CalledAtStartup(k, hook) ==
    \E i \in 1..Len(startup_log) :
        /\ startup_log[i].name = _plugin_instances[k].name
        /\ startup_log[i].hook = hook

\* C34: each sweep walks the instance dict as it stands when the sweep runs:
\* when the startup sweep ends, every plugin registered by then, each of them
\* activated after create(), had its ready hooks called; when the shutdown
\* sweep ends, every plugin registered by then had the shutdown hooks its
\* class defines called, the plugins activated while serving included, which
\* had no ready hook called.
C34_SweepsReadLiveDict ==
    [][/\ (lifespan.phase = "startup" /\ lifespan'.phase \in {"entering", "serving"}) =>
              \A k \in 1..Len(_plugin_instances), h \in {"on_ready_async", "on_ready"} :
                  StartupGuard(_plugin_instances[k].instance, h) => CalledAtStartup(k, h)
       /\ (lifespan.phase = "shutdown" /\ lifespan'.phase = "done") =>
              \A k \in 1..Len(_plugin_instances), h \in {"on_shutdown_async", "on_shutdown"} :
                  ShutdownGuard(_plugin_instances[k].instance, h) => CalledAtShutdown(k, h)]_vars

\* one plugin was activated before the startup sweep, another while serving:
\* the second had its shutdown hook called and no ready hook
C34_Witness ==
    /\ lifespan.phase = "done"
    /\ Len(_plugin_instances) = 2
    /\ \A h \in {"on_ready_async", "on_ready"} : CalledAtStartup(1, h)
    /\ \A h \in {"on_ready_async", "on_ready"} : ~CalledAtStartup(2, h)
    /\ \E h \in {"on_shutdown_async", "on_shutdown"} : CalledAtShutdown(2, h)

----------------------------------------------------------------------------
(* Two activations under one public name *)

\* the name an activation registers the plugin p under
RegisteredName(op, p) == IF op = "enable" THEN p.public_name ELSE PName(p)

\* C35: the instance dict has one entry per name; an activation that goes
\* through under a name already registered leaves the keys and their order
\* as they are, puts its instance under that name and its api in the
\* namespace, and touches no other entry, while one under a new name adds an
\* entry at the end; a shutdown hook call is made on the instance the dict
\* holds under the name at the place the loop stands at.
C35_OneEntryPerName ==
    [][/\ \A i, j \in 1..Len(_plugin_instances') :
              _plugin_instances'[i].name = _plugin_instances'[j].name => i = j
       /\ (last'.op \in {"enable", "_enable_plugin_instance"} /\ last'.outcome = "ok") =>
              LET n == RegisteredName(last'.op, last'.p)
                  entry == [name |-> n, instance |-> last'.p]
              IN  /\ plugin'[n] = last'.value
                  /\ IF HasKey(_plugin_instances, n)
                     THEN /\ Keys(_plugin_instances') = Keys(_plugin_instances)
                          /\ \A k \in 1..Len(_plugin_instances) :
                                 _plugin_instances'[k] =
                                     IF _plugin_instances[k].name = n THEN entry
                                     ELSE _plugin_instances[k]
                     ELSE _plugin_instances' = Append(_plugin_instances, entry)
       /\ shutdown_log' # shutdown_log =>
              LET call == shutdown_log'[Len(shutdown_log')]
              IN  /\ call.name = _plugin_instances[lifespan.i].name
                  /\ call.instance = _plugin_instances[lifespan.i].instance]_vars

\* SocketPlugin was activated first and had its ready hooks called; while
\* serving ShadowPlugin took its name: the shutdown sweep called the hook of
\* ShadowPlugin, before the hooks of the plugin registered second
C35_Witness ==
    /\ lifespan.phase = "done"
    /\ Len(_plugin_instances) = 2
    /\ _plugin_instances[1] = [name |-> "socket", instance |-> ShadowPlugin]
    /\ plugin["socket"] = "OtherApi"
    /\ \E i \in 1..Len(startup_log) : startup_log[i].instance = SocketPlugin
    /\ Len(shutdown_log) >= 2
    /\ shutdown_log[1].instance = ShadowPlugin
    /\ shutdown_log[1].api = "OtherApi"
    /\ \A i \in 1..Len(shutdown_log) : shutdown_log[i].instance # SocketPlugin

----------------------------------------------------------------------------
(* The metadata-only load *)

\* the metadata-only load goes through whatever the state, and takes no step
\* of an activation: no hook, no command, no required-config failure
MetadataOnlyRunsNothing ==
    (last.op = "_load_enabled_plugins" /\ last.metadata_only) =>
        /\ last.outcome = "ok"
        /\ last.calls = <<>>
        /\ last.done = Len(enabled_plugins)

\* C36: every name of the instance dict has a slot in the plugin namespace,
\* the metadata-only load included, which needs no application and runs no
\* hook, no command and no required-config check.
C36_RegisteredHasSlot ==
    /\ \A k \in 1..Len(_plugin_instances) : _plugin_instances[k].name \in DOMAIN plugin
    /\ MetadataOnlyRunsNothing

\* a metadata-only load on a container without application left a listed
\* plugin that requires a configuration, and has none, registered without slot
C36_MetadataOnlyNoSlot ==
    /\ last.op = "_load_enabled_plugins"
    /\ last.metadata_only
    /\ fastapi = NoApp
    /\ HasKey(_plugin_instances, "secure")
    /\ "SecurePlugin" \notin DOMAIN _plugin_config
    /\ "secure" \notin DOMAIN plugin

====
